---- MODULE Spec2Model ----
(***************************************************************************)
(* A model of aic (arimxyer/cc-latest): the markdown changelog parser, the *)
(* release-body section parser, the tag normalisation of the release-API   *)
(* adapter and the concurrent aggregator behind `aic latest` and           *)
(* `aic status`.                                                           *)
(*                                                                         *)
(* A Go string is modelled as a sequence of one-character strings, so that *)
(* TrimSpace, HasPrefix, TrimPrefix, Split and the regular expressions are *)
(* computed character by character, as the code computes them.             *)
(* Positions are 1-based: position p is the place before the p-th          *)
(* character, position Len(s)+1 the end of the text.                       *)
(***************************************************************************)
EXTENDS Integers, Sequences, FiniteSets, TLC

VARIABLES
    \* parseMarkdownChangelogWithOptionalDate
    content,            \* the document handed to the parser
    matches,            \* FindAllStringSubmatchIndex's result
    entries,            \* the entries appended so far
    mdPc,               \* "start" | "loop" | "done"
    \* parseReleaseBody
    body,               \* the release body handed to the parser
    lines,              \* strings.Split(body, "\n")
    lineNo,             \* index of the next line of the range loop
    sections,           \* the sections flushed so far
    ungroupedChanges,   \* the ungrouped bucket
    currentSection,     \* the cursor: <<>> (nil) or <<section>>
    rbPc,               \* "start" | "scan" | "done"
    \* the tag normalisation of fetchGitHubReleases
    tagName,            \* rel.TagName
    ver,                \* the local ver
    nvPc,               \* "start" | "tag" | "trimmedV" | "done"
    \* runLatestCommand and runStatusCommand
    mode,               \* "latest" | "status": args[0]
    aggPc,              \* the main goroutine: "start" | "collect" | "done"
    taskPc,             \* per source: "idle" | "run" | "done"
    fetched,            \* per source: what src.FetchFunc() returned
    results,            \* the buffer of the results channel
    closed,             \* close(results) has run
    wg,                 \* the WaitGroup's counter
    panicked,           \* a send on the closed channel
    arrival,            \* the source keys the loop has received a result of
    warnings,           \* the display names warned about on stderr, in order
    recentEntries,      \* latest: the entries kept so far
    statusEntries,      \* status: the rows built so far
    output,             \* what is rendered on stdout
    exitCode,           \* -1 while running, then the process's exit code
    \* calculateAvgReleaseFreq
    freqEntries,        \* the entries handed to the function
    validEntries,       \* the local validEntries
    freqOut,            \* the string returned
    freqPc,             \* "start" | "valid" | "done"
    \* formatRelativeTime
    relT,               \* the time handed to the function
    relOut,             \* the string returned
    relPc,              \* "start" | "done"
    \* main, single-source mode
    cliArgs,            \* os.Args[1:] as parsed: source key, flags, target
    cliPc,              \* "start" | "flags" | "fetched" | "select" | "done"
    cliFetched,         \* what source.FetchFunc() returned
    cliFetchCalls,      \* how many times an adapter's fetch was started
    cliStdout,          \* what was written to standard output, in order
    cliStderr,          \* what was written to standard error, in order
    cliExit,            \* -1 while running, then the process's exit code
    \* outputJSON
    jsonEntry,          \* the entry handed to the encoder
    jsonOut,            \* the encoded object: its fields in order
    jsonPc,             \* "start" | "done"
    \* fetchClaudeChangelog
    fcContent,          \* what httpGet returned: <<>> (error) or <<content>>
    fcEntries,          \* the local entries
    fcErr,              \* the error returned
    fcCommitLookups,    \* how many times the commit date was looked up
    fcPc                \* "start" | "parsed" | "done"

mdVars == <<content, matches, entries, mdPc>>
rbVars == <<body, lines, lineNo, sections, ungroupedChanges, currentSection, rbPc>>
nvVars == <<tagName, ver, nvPc>>
aggVars == <<mode, aggPc, taskPc, fetched, results, closed, wg, panicked, arrival,
             warnings, recentEntries, statusEntries, output, exitCode>>
freqVars == <<freqEntries, validEntries, freqOut, freqPc>>
relVars == <<relT, relOut, relPc>>
cliVars == <<cliArgs, cliPc, cliFetched, cliFetchCalls, cliStdout, cliStderr, cliExit>>
jsonVars == <<jsonEntry, jsonOut, jsonPc>>
fcVars == <<fcContent, fcEntries, fcErr, fcCommitLookups, fcPc>>
extVars == <<freqVars, relVars, cliVars, jsonVars, fcVars>>
vars == <<mdVars, rbVars, nvVars, aggVars, extVars>>

----------------------------------------------------------------------------
(* Bounds of the model.                                                    *)

MaxDocLines == 3
MaxBodyLines == 3
MaxTagParts == 3
NumSources == 3
MaxFreqEntries == 11
MaxRelDays == 60
MaxCliEntries == 3
MaxJsonChanges == 2

----------------------------------------------------------------------------
(* Strings.                                                                *)

NL == "\n"

Max(S) == CHOOSE x \in S : \A y \in S : y <= x

Min(S) == CHOOSE x \in S : \A y \in S : x <= y

\* unicode.IsSpace on the characters the model draws
IsSpace(c) == c \in {" ", "\t", "\n", "\r"}

IsDigit(c) == c \in {"0", "1", "2", "3", "4", "5", "6", "7", "8", "9"}

DigitVal(c) ==
    CASE c = "0" -> 0 [] c = "1" -> 1 [] c = "2" -> 2 [] c = "3" -> 3
      [] c = "4" -> 4 [] c = "5" -> 5 [] c = "6" -> 6 [] c = "7" -> 7
      [] c = "8" -> 8 [] c = "9" -> 9

\* strings.TrimSpace
TrimSpace(s) ==
    LET keep == {i \in 1..Len(s) : ~IsSpace(s[i])}
    IN  IF keep = {} THEN <<>> ELSE SubSeq(s, Min(keep), Max(keep))

\* strings.HasPrefix
HasPrefix(s, prefix) ==
    /\ Len(s) >= Len(prefix)
    /\ SubSeq(s, 1, Len(prefix)) = prefix

\* strings.TrimPrefix
TrimPrefix(s, prefix) ==
    IF HasPrefix(s, prefix) THEN SubSeq(s, Len(prefix) + 1, Len(s)) ELSE s

\* strings.Split(s, "\n"): always at least one piece
RECURSIVE SplitFrom(_, _, _)
SplitFrom(s, p, start) ==
    IF p > Len(s) THEN <<SubSeq(s, start, Len(s))>>
    ELSE IF s[p] = NL
         THEN <<SubSeq(s, start, p - 1)>> \o SplitFrom(s, p + 1, p + 1)
         ELSE SplitFrom(s, p + 1, start)

SplitLines(s) == SplitFrom(s, 1, 1)

\* the text whose lines are ls: the inverse of SplitLines
RECURSIVE JoinLines(_)
JoinLines(ls) ==
    IF Len(ls) = 0 THEN <<>>
    ELSE IF Len(ls) = 1 THEN ls[1]
    ELSE ls[1] \o <<NL>> \o JoinLines(Tail(ls))

\* all sequences over S of length 1..n
SeqsUpTo(S, n) == UNION {[1..k -> S] : k \in 1..n}

----------------------------------------------------------------------------
(* time.Time and time.Duration, counted in minutes; a time is counted from *)
(* the zero value (0001-01-01 00:00 UTC).                                  *)

ZeroTime == 0

HoursPerDay == 24

MinutesPerHour == 60

IsZero(t) == t = ZeroTime

IsLeap(y) == (y % 4 = 0 /\ y % 100 # 0) \/ y % 400 = 0

DaysIn(m, y) ==
    IF m = 2 THEN (IF IsLeap(y) THEN 29 ELSE 28)
    ELSE IF m \in {4, 6, 9, 11} THEN 30 ELSE 31

RECURSIVE DaysBeforeMonth(_, _)
DaysBeforeMonth(m, y) ==
    IF m <= 1 THEN 0 ELSE DaysBeforeMonth(m - 1, y) + DaysIn(m - 1, y)

DaysBeforeYear(y) ==
    365 * (y - 1) + ((y - 1) \div 4) - ((y - 1) \div 100) + ((y - 1) \div 400)

\* time.Parse("2006-01-02", s) with its error dropped: the zero time on error
ParseDate(s) ==
    IF ~(/\ Len(s) = 10
         /\ \A i \in {1, 2, 3, 4, 6, 7, 9, 10} : IsDigit(s[i])
         /\ s[5] = "-" /\ s[8] = "-")
    THEN ZeroTime
    ELSE LET y == 1000 * DigitVal(s[1]) + 100 * DigitVal(s[2])
                  + 10 * DigitVal(s[3]) + DigitVal(s[4])
             m == 10 * DigitVal(s[6]) + DigitVal(s[7])
             d == 10 * DigitVal(s[9]) + DigitVal(s[10])
         IN  IF m \in 1..12 /\ d \in 1..DaysIn(m, y)
             THEN MinutesPerHour * HoursPerDay
                    * (DaysBeforeYear(y) + DaysBeforeMonth(m, y) + d - 1)
             ELSE ZeroTime

----------------------------------------------------------------------------
(* The version-header pattern of fetchClaudeChangelog,                     *)
(*   (?m)^## (\d+\.\d+\.\d+)(?:\s+\((\d{4}-\d{2}-\d{2})\))?\s*$            *)
(* matched as Go's regexp matches it: leftmost, greedy, backtracking to    *)
(* the first alternative that lets the whole pattern match.  \s matches a  *)
(* line break, so a match may run over the lines that follow the header.   *)

AtLineStart(c, p) == p = 1 \/ c[p - 1] = NL

AtLineEnd(c, p) == p = Len(c) + 1 \/ c[p] = NL

LitAt(c, p, lit) ==
    /\ p + Len(lit) - 1 <= Len(c)
    /\ SubSeq(c, p, p + Len(lit) - 1) = lit

RECURSIVE DigitsEnd(_, _)
DigitsEnd(c, p) == IF p <= Len(c) /\ IsDigit(c[p]) THEN DigitsEnd(c, p + 1) ELSE p

RECURSIVE SpaceEnd(_, _)
SpaceEnd(c, p) == IF p <= Len(c) /\ IsSpace(c[p]) THEN SpaceEnd(c, p + 1) ELSE p

\* \d+\.\d+\.\d+ at p: the position after it, 0 when there is no match
VersionEnd(c, p) ==
    LET a == DigitsEnd(c, p)
        b == DigitsEnd(c, a + 1)
        d == DigitsEnd(c, b + 1)
    IN  IF a > p /\ LitAt(c, a, <<".">>) /\ b > a + 1 /\ LitAt(c, b, <<".">>) /\ d > b + 1
        THEN d ELSE 0

\* \d{4}-\d{2}-\d{2} at p: the position after it, 0 when there is no match
DateEnd(c, p) ==
    IF /\ p + 9 <= Len(c)
       /\ \A i \in {0, 1, 2, 3, 5, 6, 8, 9} : IsDigit(c[p + i])
       /\ c[p + 4] = "-" /\ c[p + 7] = "-"
    THEN p + 10 ELSE 0

\* \s*$ at p: the longest run of white space that ends at a line end, 0 if none
EolEnd(c, p) ==
    LET ends == {q \in p..SpaceEnd(c, p) : AtLineEnd(c, q)}
    IN  IF ends = {} THEN 0 ELSE Max(ends)

NoMatch == [ok |-> FALSE, start |-> 0, end |-> 0, ver |-> <<>>, date |-> <<>>]

\* the pattern tried at position p: start..end-1 is the match, ver and date
\* its two groups (date empty when the optional group took no part)
HeaderMatch(c, p) ==
    IF ~(AtLineStart(c, p) /\ LitAt(c, p, <<"#", "#", " ">>)) THEN NoMatch
    ELSE LET v == VersionEnd(c, p + 3) IN
         IF v = 0 THEN NoMatch
         ELSE LET s  == SpaceEnd(c, v)
                  de == IF s > v /\ LitAt(c, s, <<"(">>) THEN DateEnd(c, s + 1) ELSE 0
                  e2 == IF de # 0 /\ LitAt(c, de, <<")">>) THEN EolEnd(c, de + 1) ELSE 0
                  e1 == EolEnd(c, v)
              IN  IF e2 # 0
                  THEN [ok |-> TRUE, start |-> p, end |-> e2,
                        ver |-> SubSeq(c, p + 3, v - 1), date |-> SubSeq(c, s + 1, de - 1)]
                  ELSE IF e1 # 0
                  THEN [ok |-> TRUE, start |-> p, end |-> e1,
                        ver |-> SubSeq(c, p + 3, v - 1), date |-> <<>>]
                  ELSE NoMatch

\* regexp.FindAllStringSubmatch(Index)(content, -1): the matches from left
\* to right, each search resuming where the last match ended
RECURSIVE FindAllFrom(_, _)
FindAllFrom(c, p) ==
    IF p > Len(c) THEN <<>>
    ELSE LET m == HeaderMatch(c, p)
         IN  IF m.ok THEN <<m>> \o FindAllFrom(c, m.end) ELSE FindAllFrom(c, p + 1)

FindAll(c) == FindAllFrom(c, 1)

----------------------------------------------------------------------------
(* parseChanges and parseMarkdownChangelogWithOptionalDate.                *)

\* the loop body of parseChanges: what one line adds to changes
LineChanges(line) ==
    LET trimmed == TrimSpace(line)
    IN  IF HasPrefix(trimmed, <<"-", " ">>)
        THEN <<TrimPrefix(trimmed, <<"-", " ">>)>>
        ELSE <<>>

RECURSIVE ChangesOfLines(_)
ChangesOfLines(ls) ==
    IF Len(ls) = 0 THEN <<>> ELSE LineChanges(ls[1]) \o ChangesOfLines(Tail(ls))

parseChanges(text) == ChangesOfLines(SplitLines(text))

SectionContentToEnd(c, ms, i) == SubSeq(c, ms[i].end, Len(c))

\* content[matchIndexes[i][1]:contentEnd]
SectionContent(c, ms, i) ==
    SubSeq(c, ms[i].end, IF i < Len(ms) THEN ms[i + 1].start - 1 ELSE Len(c))

\* the entry the loop appends for match i
MarkdownEntry(c, ms, i) ==
    [Version    |-> ms[i].ver,
     ReleasedAt |-> IF ms[i].date # <<>> THEN ParseDate(ms[i].date) ELSE ZeroTime,
     Source     |-> <<>>,
     Sections   |-> <<>>,
     Changes    |-> parseChanges(SectionContent(c, ms, i))]

\* the lines the documents are made of
MdLines ==
    { <<"#", "#", " ", "1", ".", "2", ".", "0">>,
      <<"#", "#", " ", "1", ".", "1", ".", "0", " ", "(", "2", "0", "2", "4", "-", "0", "1", "-", "0", "7", ")", " ">>,
      <<"#", "#", "#", " ", "1", ".", "0", ".", "0">>,
      <<"(", "2", "0", "2", "4", "-", "0", "2", "-", "3", "0", ")">>,
      <<"-", " ", "a", "b">>,
      <<" ", " ", "-", " ", "c", " ">>,
      <<"*", " ", "d">>,
      <<"-", "x">>,
      <<>> }

Documents == {JoinLines(ls) : ls \in SeqsUpTo(MdLines, MaxDocLines)}

\* versionRegex.FindAllStringSubmatch / FindAllStringSubmatchIndex
MdFindAll ==
    /\ mdPc = "start"
    /\ matches' = FindAll(content)
    /\ mdPc' = "loop"
    /\ UNCHANGED <<content, entries>>
    /\ UNCHANGED <<rbVars, nvVars, aggVars, extVars>>

\* one turn of the loop over the matches
MdAppendEntry ==
    /\ mdPc = "loop"
    /\ Len(entries) < Len(matches)
    /\ entries' = Append(entries, MarkdownEntry(content, matches, Len(entries) + 1))
    /\ UNCHANGED <<content, matches, mdPc>>
    /\ UNCHANGED <<rbVars, nvVars, aggVars, extVars>>

\* return entries
MdReturn ==
    /\ mdPc = "loop"
    /\ Len(entries) = Len(matches)
    /\ mdPc' = "done"
    /\ UNCHANGED <<content, matches, entries>>
    /\ UNCHANGED <<rbVars, nvVars, aggVars, extVars>>

MdNext == MdFindAll \/ MdAppendEntry \/ MdReturn

----------------------------------------------------------------------------
(* parseReleaseBody: one action per turn of the loop over the lines.       *)

WhatsChanged == <<"W", "h", "a", "t", "'", "s", " ", "C", "h", "a", "n", "g", "e", "d">>

RECURSIVE HashesEnd(_, _)
HashesEnd(s, p) == IF p <= Len(s) /\ s[p] = "#" THEN HashesEnd(s, p + 1) ELSE p

\* headerRegex ^#{1,3}\s+(.+)$ on a trimmed line (no line break in it, no
\* white space at its end): group 1, or <<>> when the line does not match.
\* One to three # must be followed by white space, so a fourth # fails.
HeaderGroup(trimmed) ==
    LET h == HashesEnd(trimmed, 1)
        t == SpaceEnd(trimmed, h)
    IN  IF h - 1 \in 1..3 /\ t > h /\ t <= Len(trimmed)
        THEN SubSeq(trimmed, t, Len(trimmed))
        ELSE <<>>

IsHeader(trimmed) == HeaderGroup(trimmed) # <<>>

\* headerName := strings.TrimSpace(match[1])
HeaderName(trimmed) == TrimSpace(HeaderGroup(trimmed))

IsWrapperNever(headerName) == FALSE

\* headerName == "What's Changed"
IsWrapper(headerName) == headerName = WhatsChanged

IsListItem(trimmed) ==
    HasPrefix(trimmed, <<"-", " ">>) \/ HasPrefix(trimmed, <<"*", " ">>)

\* change := TrimPrefix(TrimPrefix(trimmed, "- "), "* ")
ChangeText(trimmed) == TrimPrefix(TrimPrefix(trimmed, <<"-", " ">>), <<"*", " ">>)

\* change != "" && !strings.HasPrefix(change, "@")
KeepChange(change) == change # <<>> /\ ~HasPrefix(change, <<"@">>)

FlushAlways(secs, cur) == secs \o cur

\* if currentSection != nil && len(currentSection.Changes) > 0 { append }
Flush(secs, cur) ==
    IF cur # <<>> /\ Len(cur[1].Changes) > 0 THEN Append(secs, cur[1]) ELSE secs

\* the lines the release bodies are made of
RbLines ==
    { <<"#", "#", " ", "T", "U", "I">>,
      <<"-", " ", "A", "d", "d", "e", "d", " ", "X">>,
      <<"#", "#", " ", "W", "h", "a", "t", "'", "s", " ", "C", "h", "a", "n", "g", "e", "d">>,
      <<"-", " ", "I", "g", "n", "o", "r", "e", " ", "m", "e">>,
      <<" ", "#", " ", " ", "D", "e", "s", "k", "t", "o", "p", " ">>,
      <<"#", "#", "#", "#", " ", "D", "e", "e", "p">>,
      <<"*", " ", "@", "b", "o", "t">>,
      <<" ", "*", " ", "-", " ", "y">>,
      <<"*", " ", "*", " ", "z">>,
      <<"-", " ", "*", " ", "@", "b">>,
      <<>> }

\* "## TUI\n- Added X\n## What's Changed\n- Ignore me\n"
ScenarioB ==
    JoinLines(<< <<"#", "#", " ", "T", "U", "I">>,
                 <<"-", " ", "A", "d", "d", "e", "d", " ", "X">>,
                 <<"#", "#", " ", "W", "h", "a", "t", "'", "s", " ", "C", "h", "a", "n", "g", "e", "d">>,
                 <<"-", " ", "I", "g", "n", "o", "r", "e", " ", "m", "e">>,
                 <<>> >>)

Bodies == {JoinLines(ls) : ls \in SeqsUpTo(RbLines, MaxBodyLines)} \cup {ScenarioB}

\* lines := strings.Split(body, "\n")
RbSplit ==
    /\ rbPc = "start"
    /\ lines' = SplitLines(body)
    /\ rbPc' = "scan"
    /\ UNCHANGED <<body, lineNo, sections, ungroupedChanges, currentSection>>
    /\ UNCHANGED <<mdVars, nvVars, aggVars, extVars>>

RbAtLine == rbPc = "scan" /\ lineNo <= Len(lines)

\* a "What's Changed" header: continue
RbSkipWrapper ==
    /\ RbAtLine
    /\ IsHeader(TrimSpace(lines[lineNo]))
    /\ IsWrapper(HeaderName(TrimSpace(lines[lineNo])))
    /\ lineNo' = lineNo + 1
    /\ UNCHANGED <<body, lines, sections, ungroupedChanges, currentSection, rbPc>>
    /\ UNCHANGED <<mdVars, nvVars, aggVars, extVars>>

\* any other header: save the previous section, open a new one
RbOpenSection ==
    /\ RbAtLine
    /\ IsHeader(TrimSpace(lines[lineNo]))
    /\ ~IsWrapper(HeaderName(TrimSpace(lines[lineNo])))
    /\ sections' = Flush(sections, currentSection)
    /\ currentSection' = <<[Name |-> HeaderName(TrimSpace(lines[lineNo])), Changes |-> <<>>]>>
    /\ lineNo' = lineNo + 1
    /\ UNCHANGED <<body, lines, ungroupedChanges, rbPc>>
    /\ UNCHANGED <<mdVars, nvVars, aggVars, extVars>>

\* a list item that is kept, with a section open
RbAppendToSection ==
    /\ RbAtLine
    /\ ~IsHeader(TrimSpace(lines[lineNo]))
    /\ IsListItem(TrimSpace(lines[lineNo]))
    /\ KeepChange(ChangeText(TrimSpace(lines[lineNo])))
    /\ currentSection # <<>>
    /\ currentSection' =
        <<[currentSection[1] EXCEPT
            !.Changes = Append(@, ChangeText(TrimSpace(lines[lineNo])))]>>
    /\ lineNo' = lineNo + 1
    /\ UNCHANGED <<body, lines, sections, ungroupedChanges, rbPc>>
    /\ UNCHANGED <<mdVars, nvVars, aggVars, extVars>>

\* a list item that is kept, with no section open
RbAppendUngrouped ==
    /\ RbAtLine
    /\ ~IsHeader(TrimSpace(lines[lineNo]))
    /\ IsListItem(TrimSpace(lines[lineNo]))
    /\ KeepChange(ChangeText(TrimSpace(lines[lineNo])))
    /\ currentSection = <<>>
    /\ ungroupedChanges' = Append(ungroupedChanges, ChangeText(TrimSpace(lines[lineNo])))
    /\ lineNo' = lineNo + 1
    /\ UNCHANGED <<body, lines, sections, currentSection, rbPc>>
    /\ UNCHANGED <<mdVars, nvVars, aggVars, extVars>>

\* a list item that is dropped, or a line that is neither header nor item
RbIgnoreLine ==
    /\ RbAtLine
    /\ ~IsHeader(TrimSpace(lines[lineNo]))
    /\ ~(/\ IsListItem(TrimSpace(lines[lineNo]))
          /\ KeepChange(ChangeText(TrimSpace(lines[lineNo]))))
    /\ lineNo' = lineNo + 1
    /\ UNCHANGED <<body, lines, sections, ungroupedChanges, currentSection, rbPc>>
    /\ UNCHANGED <<mdVars, nvVars, aggVars, extVars>>

\* after the loop: save the last section, return
RbReturn ==
    /\ rbPc = "scan"
    /\ lineNo > Len(lines)
    /\ sections' = Flush(sections, currentSection)
    /\ rbPc' = "done"
    /\ UNCHANGED <<body, lines, lineNo, ungroupedChanges, currentSection>>
    /\ UNCHANGED <<mdVars, nvVars, aggVars, extVars>>

RbNext ==
    \/ RbSplit
    \/ RbSkipWrapper
    \/ RbOpenSection
    \/ RbAppendToSection
    \/ RbAppendUngrouped
    \/ RbIgnoreLine
    \/ RbReturn

\* one turn of the loop on a trimmed line: the state after it
ScanLine(st, trimmed) ==
    IF IsHeader(trimmed)
    THEN IF IsWrapper(HeaderName(trimmed)) THEN st
         ELSE [st EXCEPT !.sections = Flush(st.sections, st.cur),
                         !.cur = <<[Name |-> HeaderName(trimmed), Changes |-> <<>>]>>]
    ELSE IF IsListItem(trimmed) /\ KeepChange(ChangeText(trimmed))
    THEN IF st.cur # <<>>
         THEN [st EXCEPT !.cur = <<[st.cur[1] EXCEPT
                                        !.Changes = Append(@, ChangeText(trimmed))]>>]
         ELSE [st EXCEPT !.ungrouped = Append(st.ungrouped, ChangeText(trimmed))]
    ELSE st

RECURSIVE ScanLines(_, _)
ScanLines(st, ls) ==
    IF Len(ls) = 0 THEN st ELSE ScanLines(ScanLine(st, TrimSpace(ls[1])), Tail(ls))

\* parseReleaseBody as a whole: (sections, ungroupedChanges)
parseReleaseBody(b) ==
    LET st == ScanLines([sections |-> <<>>, ungrouped |-> <<>>, cur |-> <<>>], SplitLines(b))
    IN  [sections |-> Flush(st.sections, st.cur), ungrouped |-> st.ungrouped]

----------------------------------------------------------------------------
(* The tag normalisation of fetchGitHubReleases.                           *)

\* the pieces the tags are made of
TagParts ==
    { <<"v">>, <<"r", "u", "s", "t", "-", "v">>, <<"r", "u", "s", "t", "-">>,
      <<"1", ".", "2">>, <<"0">> }

RECURSIVE Concat(_)
Concat(ss) == IF Len(ss) = 0 THEN <<>> ELSE ss[1] \o Concat(Tail(ss))

Tags == {Concat(ps) : ps \in SeqsUpTo(TagParts, MaxTagParts)} \cup {<<>>}

\* ver := rel.TagName
NvTag ==
    /\ nvPc = "start"
    /\ ver' = tagName
    /\ nvPc' = "tag"
    /\ UNCHANGED tagName
    /\ UNCHANGED <<mdVars, rbVars, aggVars, extVars>>

\* ver = strings.TrimPrefix(ver, "v")
NvTrimV ==
    /\ nvPc = "tag"
    /\ ver' = TrimPrefix(ver, <<"v">>)
    /\ nvPc' = "trimmedV"
    /\ UNCHANGED tagName
    /\ UNCHANGED <<mdVars, rbVars, aggVars, extVars>>

\* ver = strings.TrimPrefix(ver, "rust-v")
NvTrimRustV ==
    /\ nvPc = "trimmedV"
    /\ ver' = TrimPrefix(ver, <<"r", "u", "s", "t", "-", "v">>)
    /\ nvPc' = "done"
    /\ UNCHANGED tagName
    /\ UNCHANGED <<mdVars, rbVars, aggVars, extVars>>

NvNext == NvTag \/ NvTrimV \/ NvTrimRustV

----------------------------------------------------------------------------
(* Formatting helpers of the status view.                                  *)

\* Go's integer division and int(float): toward zero
TruncDiv(a, b) == IF a >= 0 THEN a \div b ELSE -((-a) \div b)

DigitChar(d) == <<"0", "1", "2", "3", "4", "5", "6", "7", "8", "9">>[d + 1]

RECURSIVE NatChars(_)
NatChars(n) == IF n < 10 THEN <<DigitChar(n)>> ELSE NatChars(n \div 10) \o <<DigitChar(n % 10)>>

\* fmt.Sprintf("%d", n)
Itoa(n) == IF n < 0 THEN <<"-">> \o NatChars(-n) ELSE NatChars(n)

Dash == <<"-">>

\* time.Now(): the clock is read as one instant during a command
Now == ParseDate(<<"2", "0", "2", "5", "-", "1", "2", "-", "2", "0">>) + 9 * MinutesPerHour

formatRelativeTimeFiveWeeks(t) ==
    IF IsZero(t) THEN Dash
    ELSE LET duration == Now - t
             minutes  == duration
             hours    == TruncDiv(duration, MinutesPerHour)
             days     == TruncDiv(hours, 24)
             weeks    == TruncDiv(days, 7)
             months   == TruncDiv(days, 30)
         IN  IF minutes < 60 THEN Itoa(minutes) \o <<"m", " ", "a", "g", "o">>
             ELSE IF hours < 24 THEN Itoa(hours) \o <<"h", " ", "a", "g", "o">>
             ELSE IF days < 7 THEN Itoa(days) \o <<"d", " ", "a", "g", "o">>
             ELSE IF weeks < 5 THEN Itoa(weeks) \o <<"w", " ", "a", "g", "o">>
             ELSE Itoa(months) \o <<"m", "o", " ", "a", "g", "o">>

\* formatRelativeTime
formatRelativeTime(t) ==
    IF IsZero(t) THEN Dash
    ELSE LET duration == Now - t
             minutes  == duration
             hours    == TruncDiv(duration, MinutesPerHour)
             days     == TruncDiv(hours, 24)
             weeks    == TruncDiv(days, 7)
             months   == TruncDiv(days, 30)
         IN  IF minutes < 60 THEN Itoa(minutes) \o <<"m", " ", "a", "g", "o">>
             ELSE IF hours < 24 THEN Itoa(hours) \o <<"h", " ", "a", "g", "o">>
             ELSE IF days < 7 THEN Itoa(days) \o <<"d", " ", "a", "g", "o">>
             ELSE IF weeks < 4 THEN Itoa(weeks) \o <<"w", " ", "a", "g", "o">>
             ELSE Itoa(months) \o <<"m", "o", " ", "a", "g", "o">>

ValidEntriesUncapped(es, acc) == SelectSeq(es, LAMBDA e : ~IsZero(e.ReleasedAt))

\* the first loop of calculateAvgReleaseFreq: the dated entries, at most 10
RECURSIVE ValidEntries(_, _)
ValidEntries(es, acc) ==
    IF Len(es) = 0 THEN acc
    ELSE LET acc2 == IF ~IsZero(es[1].ReleasedAt) THEN Append(acc, es[1]) ELSE acc
         IN  IF Len(acc2) >= 10 THEN acc2 ELSE ValidEntries(Tail(es), acc2)

RECURSIVE TotalDuration(_, _)
TotalDuration(valid, i) ==
    IF i > Len(valid) - 1 THEN 0
    ELSE (valid[i].ReleasedAt - valid[i + 1].ReleasedAt) + TotalDuration(valid, i + 1)

\* calculateAvgReleaseFreq
calculateAvgReleaseFreq(es) ==
    LET valid == ValidEntries(es, <<>>) IN
    IF Len(valid) < 2 THEN Dash
    ELSE LET avgDuration == TruncDiv(TotalDuration(valid, 1), Len(valid) - 1)
             hours  == TruncDiv(avgDuration, MinutesPerHour)
             days   == TruncDiv(hours, 24)
             weeks  == TruncDiv(days, 7)
             months == TruncDiv(days, 30)
         IN  IF days < 1 THEN <<"~">> \o Itoa(hours) \o <<"h">>
             ELSE IF days < 7 THEN <<"~">> \o Itoa(days) \o <<"d">>
             ELSE IF weeks < 4 THEN <<"~">> \o Itoa(weeks) \o <<"w">>
             ELSE <<"~">> \o Itoa(months) \o <<"m", "o">>

----------------------------------------------------------------------------
(* The source registry.                                                    *)

Registry ==
    << [Name |-> "claude",   DisplayName |-> <<"C", "l", "a", "u", "d", "e", " ", "C", "o", "d", "e">>],
       [Name |-> "codex",    DisplayName |-> <<"O", "p", "e", "n", "A", "I", " ", "C", "o", "d", "e", "x">>],
       [Name |-> "opencode", DisplayName |-> <<"O", "p", "e", "n", "C", "o", "d", "e">>],
       [Name |-> "gemini",   DisplayName |-> <<"G", "e", "m", "i", "n", "i", " ", "C", "L", "I">>],
       [Name |-> "copilot",  DisplayName |-> <<"G", "i", "t", "H", "u", "b", " ", "C", "o", "p", "i", "l", "o", "t", " ", "C", "L", "I">>] >>

\* the sources of the model: the first NumSources of the registry
SourceIdx == 1..(IF NumSources < Len(Registry) THEN NumSources ELSE Len(Registry))

Sources == {Registry[i].Name : i \in SourceIdx}

DisplayName(s) == Registry[CHOOSE i \in SourceIdx : Registry[i].Name = s].DisplayName

\* the byte order of the characters of the display names
Ascii ==
    <<" ", "A", "B", "C", "D", "E", "F", "G", "H", "I", "J", "K", "L", "M", "N", "O",
      "P", "Q", "R", "S", "T", "U", "V", "W", "X", "Y", "Z", "a", "b", "c", "d", "e",
      "f", "g", "h", "i", "j", "k", "l", "m", "n", "o", "p", "q", "r", "s", "t", "u",
      "v", "w", "x", "y", "z">>

CharCode(c) == CHOOSE i \in 1..Len(Ascii) : Ascii[i] = c

\* Go's < on strings
StrLess(a, b) ==
    LET n    == IF Len(a) < Len(b) THEN Len(a) ELSE Len(b)
        diff == {i \in 1..n : a[i] # b[i]}
    IN  IF diff = {} THEN Len(a) < Len(b)
        ELSE CharCode(a[Min(diff)]) < CharCode(b[Min(diff)])

----------------------------------------------------------------------------
(* sort.Slice.  A slice of at most 12 elements is sorted by insertion      *)
(* (sort.insertionSortLessFunc), and the registry has five sources.        *)

\* for j := i; j > a && less(j, j-1); j-- { swap(j, j-1) }
RECURSIVE SinkDown(_, _, _)
SinkDown(s, j, lessRel) ==
    IF j > 1 /\ <<s[j], s[j - 1]>> \in lessRel
    THEN SinkDown([s EXCEPT ![j] = s[j - 1], ![j - 1] = s[j]], j - 1, lessRel)
    ELSE s

\* for i := a + 1; i < b; i++ { ... }
RECURSIVE InsertionSort(_, _, _)
InsertionSort(s, i, lessRel) ==
    IF i > Len(s) THEN s ELSE InsertionSort(SinkDown(s, i, lessRel), i + 1, lessRel)

\* t.After(u)
After(t, u) == t > u

LatestLessAscending(a, b) == After(b.ReleasedAt, a.ReleasedAt)

\* the less function of runLatestCommand's sort.Slice
LatestLess(a, b) == After(a.ReleasedAt, b.ReleasedAt)

StatusLessByDateOnly(a, b) == After(a.releasedAt, b.releasedAt)

\* the less function of runStatusCommand's sort.Slice
StatusLess(a, b) ==
    IF IsZero(a.releasedAt) /\ IsZero(b.releasedAt) THEN StrLess(a.Name, b.Name)
    ELSE IF IsZero(a.releasedAt) THEN FALSE
    ELSE IF IsZero(b.releasedAt) THEN TRUE
    ELSE After(a.releasedAt, b.releasedAt)

\* sort.Slice(slice, less) with the less function of command m
SortSlice(s, m) ==
    LET elems == {s[i] : i \in 1..Len(s)}
    IN  InsertionSort(s, 2,
            {p \in elems \X elems :
                IF m = "latest" THEN LatestLess(p[1], p[2])
                ELSE StatusLess(p[1], p[2])})

----------------------------------------------------------------------------
(* runLatestCommand and runStatusCommand.                                  *)

\* cutoff := time.Now().Add(-24 * time.Hour)
Cutoff == Now - HoursPerDay * MinutesPerHour

Entry(v, t) ==
    [Version |-> v, ReleasedAt |-> t, Source |-> <<>>, Sections |-> <<>>, Changes |-> <<>>]

\* the release times the adapters' newest entries are drawn from
AggTimes == {ZeroTime, Cutoff + 1, Cutoff + 2, Cutoff + 3}

\* the entry lists an adapter may return: none, one entry, or two entries
\* with the newest exactly at the cutoff
EntryLists ==
    {<<>>}
    \cup {<<Entry(<<"2">>, t)>> : t \in AggTimes}
    \cup {<<Entry(<<"2">>, Cutoff), Entry(<<"1">>, Cutoff - HoursPerDay * MinutesPerHour)>>}

\* what src.FetchFunc() may return: (entries, nil) or (nil, err)
FetchResults ==
    {[returned |-> TRUE, err |-> FALSE, entries |-> es] : es \in EntryLists}
    \cup {[returned |-> TRUE, err |-> TRUE, entries |-> <<>>]}

NotFetched == [returned |-> FALSE, err |-> FALSE, entries |-> <<>>]

\* whether the task sends a result: status always, latest unless the fetch
\* returned no error and no entry
TaskSends(m, f) == m = "status" \/ f.err \/ Len(f.entries) > 0

\* the result the task sends
TaskResult(m, s, f) ==
    IF m = "latest"
    THEN [source |-> s, display |-> DisplayName(s), err |-> f.err,
          entries |-> IF f.err THEN <<>>
                      ELSE <<[f.entries[1] EXCEPT !.Source = DisplayName(s)]>>]
    ELSE [source |-> s, display |-> DisplayName(s), err |-> f.err, entries |-> f.entries]

IsRecentOrAtCutoff(t) == ~IsZero(t) /\ ~After(Cutoff, t)

\* !t.IsZero() && t.After(cutoff)
IsRecent(t) == ~IsZero(t) /\ After(t, Cutoff)

\* the statusEntry built from a result
StatusRow(r) ==
    [Name            |-> r.display,
     Version         |-> r.entries[1].Version,
     PreviousVersion |-> IF Len(r.entries) > 1 THEN r.entries[2].Version ELSE Dash,
     UpdatedAgo      |-> formatRelativeTime(r.entries[1].ReleasedAt),
     UpdatedRecently |-> IsRecent(r.entries[1].ReleasedAt),
     AvgReleaseFreq  |-> calculateAvgReleaseFreq(r.entries),
     releasedAt      |-> r.entries[1].ReleasedAt]

NoOutput == [kind |-> "", items |-> <<>>]

CapacityOneShort == Cardinality(Sources) - 1

\* results := make(chan result, len(sources)): the buffer's capacity
Capacity == Cardinality(Sources)

\* make(chan, len(sources)); for each source { wg.Add(1); go task };
\* go closer.  No task touches anything the loop reads, so the loop is one step.
AggStart ==
    /\ aggPc = "start"
    /\ wg' = Cardinality(Sources)
    /\ taskPc' = [s \in Sources |-> "run"]
    /\ aggPc' = "collect"
    /\ UNCHANGED <<mode, fetched, results, closed, panicked, arrival, warnings,
                   recentEntries, statusEntries, output, exitCode>>
    /\ UNCHANGED <<mdVars, rbVars, nvVars, extVars>>

\* The goroutine of one source, from its start to its return:
\*   defer wg.Done(); entries, err := src.FetchFunc(); results <- result{...}
\* FetchFunc returns f, the task sends the result it builds from f (latest
\* sends nothing when there is no error and no entry), and the deferred
\* wg.Done() runs at the return.  The fetch touches nothing shared and
\* wg.Done() can only enable the closer, so the body is one step.  The send
\* blocks while the buffer is full and panics once the channel is closed.
TaskRun(s) ==
    /\ taskPc[s] = "run"
    /\ \E f \in FetchResults :
        /\ fetched' = [fetched EXCEPT ![s] = f]
        /\ IF ~TaskSends(mode, f) THEN UNCHANGED <<results, panicked>>
           ELSE IF closed THEN panicked' = TRUE /\ UNCHANGED results
           ELSE /\ Len(results) < Capacity
                /\ results' = Append(results, TaskResult(mode, s, f))
                /\ UNCHANGED panicked
    /\ wg' = wg - 1
    /\ taskPc' = [taskPc EXCEPT ![s] = "done"]
    /\ UNCHANGED <<mode, aggPc, closed, arrival, warnings,
                   recentEntries, statusEntries, output, exitCode>>
    /\ UNCHANGED <<mdVars, rbVars, nvVars, extVars>>

WaitReturnsAtOnce == TRUE

WaitReturnsNever == FALSE

\* wg.Wait() returns
WaitReturns == wg = 0

\* go func() { wg.Wait(); close(results) }()
CloserClose ==
    /\ aggPc # "start"
    /\ ~closed
    /\ WaitReturns
    /\ closed' = TRUE
    /\ UNCHANGED <<mode, aggPc, taskPc, fetched, results, wg, panicked, arrival, warnings,
                   recentEntries, statusEntries, output, exitCode>>
    /\ UNCHANGED <<mdVars, rbVars, nvVars, extVars>>

AggReceiving == aggPc = "collect" /\ Len(results) > 0

\* a mutant of CollectWarn: the first failure ends the command
CollectWarnAbort ==
    /\ AggReceiving
    /\ Head(results).err
    /\ results' = Tail(results)
    /\ arrival' = arrival \cup {Head(results).source}
    /\ warnings' = Append(warnings, Head(results).display)
    /\ aggPc' = "done"
    /\ exitCode' = 1
    /\ UNCHANGED <<mode, taskPc, fetched, closed, wg, panicked, recentEntries,
                   statusEntries, output>>
    /\ UNCHANGED <<mdVars, rbVars, nvVars, extVars>>

\* r.err != nil: the warning on stderr, continue
CollectWarn ==
    /\ AggReceiving
    /\ Head(results).err
    /\ results' = Tail(results)
    /\ arrival' = arrival \cup {Head(results).source}
    /\ warnings' = Append(warnings, Head(results).display)
    /\ UNCHANGED <<mode, aggPc, taskPc, fetched, closed, wg, panicked, recentEntries,
                   statusEntries, output, exitCode>>
    /\ UNCHANGED <<mdVars, rbVars, nvVars, extVars>>

\* latest: r.entry != nil && !r.entry.ReleasedAt.IsZero() && After(cutoff)
LatestKeeps(r) == Len(r.entries) > 0 /\ IsRecent(r.entries[1].ReleasedAt)

\* status: len(r.entries) == 0 { continue }
StatusKeeps(r) == Len(r.entries) > 0

\* a result without error whose entry is kept
CollectKeep ==
    /\ AggReceiving
    /\ ~Head(results).err
    /\ IF mode = "latest" THEN LatestKeeps(Head(results)) ELSE StatusKeeps(Head(results))
    /\ results' = Tail(results)
    /\ arrival' = arrival \cup {Head(results).source}
    /\ IF mode = "latest"
       THEN /\ recentEntries' = Append(recentEntries, Head(results).entries[1])
            /\ UNCHANGED statusEntries
       ELSE /\ statusEntries' = Append(statusEntries, StatusRow(Head(results)))
            /\ UNCHANGED recentEntries
    /\ UNCHANGED <<mode, aggPc, taskPc, fetched, closed, wg, panicked, warnings,
                   output, exitCode>>
    /\ UNCHANGED <<mdVars, rbVars, nvVars, extVars>>

\* a result without error that adds nothing
CollectSkip ==
    /\ AggReceiving
    /\ ~Head(results).err
    /\ ~(IF mode = "latest" THEN LatestKeeps(Head(results)) ELSE StatusKeeps(Head(results)))
    /\ results' = Tail(results)
    /\ arrival' = arrival \cup {Head(results).source}
    /\ UNCHANGED <<mode, aggPc, taskPc, fetched, closed, wg, panicked, warnings,
                   recentEntries, statusEntries, output, exitCode>>
    /\ UNCHANGED <<mdVars, rbVars, nvVars, extVars>>

\* the range loop ends on the closed, drained channel; then sort.Slice, the
\* rendering and os.Exit(0)
CollectEnd ==
    /\ aggPc = "collect"
    /\ Len(results) = 0
    /\ closed
    /\ output' =
        IF mode = "latest"
        THEN IF Len(recentEntries) = 0
             THEN [kind |-> "none", items |-> <<>>]
             ELSE [kind |-> "entries", items |-> SortSlice(recentEntries, "latest")]
        ELSE [kind |-> "rows", items |-> SortSlice(statusEntries, "status")]
    /\ exitCode' = 0
    /\ aggPc' = "done"
    /\ UNCHANGED <<mode, taskPc, fetched, results, closed, wg, panicked, arrival,
                   warnings, recentEntries, statusEntries>>
    /\ UNCHANGED <<mdVars, rbVars, nvVars, extVars>>

AggNext ==
    \/ AggStart
    \/ \E s \in Sources : TaskRun(s)
    \/ CloserClose
    \/ CollectWarn
    \/ CollectKeep
    \/ CollectSkip
    \/ CollectEnd

----------------------------------------------------------------------------
(* calculateAvgReleaseFreq, step by step.                                  *)

\* the gaps between consecutive entries, in minutes
FreqGaps == {30, 1435, 1440, 2160, 4320, 10080, 43200, -1440}

\* the extra gap before every even entry
FreqJitter == {0, 90}

\* n entries, newest first when the gap g is positive; entry i is undated
\* when i is in u
FreqList(n, g, j, u) ==
    [i \in 1..n |->
        Entry(Itoa(n - i + 1),
              IF i \in u THEN ZeroTime
              ELSE Now - MinutesPerHour - (i - 1) * g - (IF i % 2 = 0 THEN j ELSE 0))]

FreqLists ==
    {FreqList(n, g, j, u) :
        n \in 0..MaxFreqEntries, g \in FreqGaps, j \in FreqJitter, u \in SUBSET {1, 2, 4}}

\* for _, e := range entries { ... }
FreqValid ==
    /\ freqPc = "start"
    /\ validEntries' = ValidEntries(freqEntries, <<>>)
    /\ freqPc' = "valid"
    /\ UNCHANGED <<freqEntries, freqOut>>
    /\ UNCHANGED <<mdVars, rbVars, nvVars, aggVars, relVars, cliVars, jsonVars, fcVars>>

\* if len(validEntries) < 2 { return "-" }
FreqPlaceholder ==
    /\ freqPc = "valid"
    /\ Len(validEntries) < 2
    /\ freqOut' = calculateAvgReleaseFreq(freqEntries)
    /\ freqPc' = "done"
    /\ UNCHANGED <<freqEntries, validEntries>>
    /\ UNCHANGED <<mdVars, rbVars, nvVars, aggVars, relVars, cliVars, jsonVars, fcVars>>

\* the average of the intervals, formatted
FreqAverage ==
    /\ freqPc = "valid"
    /\ Len(validEntries) >= 2
    /\ freqOut' = calculateAvgReleaseFreq(freqEntries)
    /\ freqPc' = "done"
    /\ UNCHANGED <<freqEntries, validEntries>>
    /\ UNCHANGED <<mdVars, rbVars, nvVars, aggVars, relVars, cliVars, jsonVars, fcVars>>

FreqNext ==
    \/ FreqValid
    \/ FreqPlaceholder
    \/ FreqAverage

----------------------------------------------------------------------------
(* formatRelativeTime, step by step.                                       *)

\* the elapsed durations, in minutes: around every bucket's edges, and one
\* in the future
RelDurations ==
    {dd * HoursPerDay * MinutesPerHour + hh * MinutesPerHour + mm :
        dd \in 0..MaxRelDays, hh \in {0, 1, 23}, mm \in {0, 1, 59}}
    \cup {-90}

RelTimes == {ZeroTime} \cup {Now - d : d \in RelDurations}

\* if t.IsZero() { return "-" }
RelDash ==
    /\ relPc = "start"
    /\ IsZero(relT)
    /\ relOut' = formatRelativeTime(relT)
    /\ relPc' = "done"
    /\ UNCHANGED relT
    /\ UNCHANGED <<mdVars, rbVars, nvVars, aggVars, freqVars, cliVars, jsonVars, fcVars>>

\* the bucket of time.Since(t)
RelFormat ==
    /\ relPc = "start"
    /\ ~IsZero(relT)
    /\ relOut' = formatRelativeTime(relT)
    /\ relPc' = "done"
    /\ UNCHANGED relT
    /\ UNCHANGED <<mdVars, rbVars, nvVars, aggVars, freqVars, cliVars, jsonVars, fcVars>>

RelNext ==
    \/ RelDash
    \/ RelFormat

----------------------------------------------------------------------------
(* main, single-source mode: args[0] is taken as a source key.             *)

\* the keys given as args[0]: the registry's and one that is not in it
CliKeys == Sources \cup {"bogus"}

\* the versions the adapters' entries carry, and the targets asked for
CliVersions == {<<"1">>, <<"2">>}

CliTargets == {<<>>, <<"1">>, <<"2">>, <<"9">>}

\* the command lines: -json, -md, -list and -version <target>
CliArgSets ==
    [source : CliKeys, json : BOOLEAN, md : BOOLEAN, list : BOOLEAN, target : CliTargets]

\* the entry lists an adapter may return: entry i carries version vs[i]
CliEntryLists ==
    {[i \in 1..Len(vs) |-> Entry(vs[i], Cutoff + i)] :
        vs \in UNION {[1..n -> CliVersions] : n \in 0..MaxCliEntries}}

CliFetchResults ==
    {[returned |-> TRUE, err |-> FALSE, entries |-> es] : es \in CliEntryLists}
    \cup {[returned |-> TRUE, err |-> TRUE, entries |-> <<>>]}

FindVersionLast(es, target) ==
    LET hits == {i \in 1..Len(es) : es[i].Version = target}
    IN  IF hits = {} THEN 0 ELSE Max(hits)

\* for i := range entries { if entries[i].Version == targetVersion { ... break } }:
\* the index of the entry found, 0 for nil
FindVersion(es, target) ==
    LET hits == {i \in 1..Len(es) : es[i].Version = target}
    IN  IF hits = {} THEN 0 ELSE Min(hits)

\* source, ok := sources[sourceName]; if !ok { ...; os.Exit(1) }
CliUnknownSource ==
    /\ cliPc = "start"
    /\ cliArgs.source \notin Sources
    /\ cliStderr' = Append(cliStderr, [msg |-> "Error: Unknown source", arg |-> cliArgs.source])
    /\ cliExit' = 1
    /\ cliPc' = "done"
    /\ UNCHANGED <<cliArgs, cliFetched, cliFetchCalls, cliStdout>>
    /\ UNCHANGED <<mdVars, rbVars, nvVars, aggVars, freqVars, relVars, jsonVars, fcVars>>

\* the flag loop, then entries, err := source.FetchFunc()
CliFetch ==
    /\ cliPc = "start"
    /\ cliArgs.source \in Sources
    /\ \E f \in CliFetchResults : cliFetched' = f
    /\ cliFetchCalls' = cliFetchCalls + 1
    /\ cliPc' = "fetched"
    /\ UNCHANGED <<cliArgs, cliStdout, cliStderr, cliExit>>
    /\ UNCHANGED <<mdVars, rbVars, nvVars, aggVars, freqVars, relVars, jsonVars, fcVars>>

\* if err != nil { ...; os.Exit(1) }
CliFetchError ==
    /\ cliPc = "fetched"
    /\ cliFetched.err
    /\ cliStderr' = Append(cliStderr, [msg |-> "Error fetching changelog", arg |-> cliArgs.source])
    /\ cliExit' = 1
    /\ cliPc' = "done"
    /\ UNCHANGED <<cliArgs, cliFetched, cliFetchCalls, cliStdout>>
    /\ UNCHANGED <<mdVars, rbVars, nvVars, aggVars, freqVars, relVars, jsonVars, fcVars>>

\* if len(entries) == 0 { ...; os.Exit(1) }
CliNoEntries ==
    /\ cliPc = "fetched"
    /\ ~cliFetched.err
    /\ Len(cliFetched.entries) = 0
    /\ cliStderr' = Append(cliStderr, [msg |-> "Error: No changelog entries found", arg |-> cliArgs.source])
    /\ cliExit' = 1
    /\ cliPc' = "done"
    /\ UNCHANGED <<cliArgs, cliFetched, cliFetchCalls, cliStdout>>
    /\ UNCHANGED <<mdVars, rbVars, nvVars, aggVars, freqVars, relVars, jsonVars, fcVars>>

\* if listVersions { print every version; os.Exit(0) }
CliListVersions ==
    /\ cliPc = "fetched"
    /\ ~cliFetched.err
    /\ Len(cliFetched.entries) > 0
    /\ cliArgs.list
    /\ cliStdout' = cliStdout \o [i \in 1..Len(cliFetched.entries) |->
                                    [kind |-> "version", text |-> cliFetched.entries[i].Version]]
    /\ cliExit' = 0
    /\ cliPc' = "done"
    /\ UNCHANGED <<cliArgs, cliFetched, cliFetchCalls, cliStderr>>
    /\ UNCHANGED <<mdVars, rbVars, nvVars, aggVars, freqVars, relVars, jsonVars, fcVars>>

\* if entry == nil { ...; os.Exit(1) }
CliVersionNotFound ==
    /\ cliPc = "fetched"
    /\ ~cliFetched.err
    /\ Len(cliFetched.entries) > 0
    /\ ~cliArgs.list
    /\ cliArgs.target # <<>>
    /\ FindVersion(cliFetched.entries, cliArgs.target) = 0
    /\ cliStderr' = Append(cliStderr, [msg |-> "Error: Version not found", arg |-> cliArgs.target])
    /\ cliExit' = 1
    /\ cliPc' = "done"
    /\ UNCHANGED <<cliArgs, cliFetched, cliFetchCalls, cliStdout>>
    /\ UNCHANGED <<mdVars, rbVars, nvVars, aggVars, freqVars, relVars, jsonVars, fcVars>>

\* the entry selected is rendered as JSON, markdown or plain text, and
\* main returns
CliRender ==
    /\ cliPc = "fetched"
    /\ ~cliFetched.err
    /\ Len(cliFetched.entries) > 0
    /\ ~cliArgs.list
    /\ cliArgs.target # <<>> => FindVersion(cliFetched.entries, cliArgs.target) # 0
    /\ LET idx == IF cliArgs.target # <<>>
                  THEN FindVersion(cliFetched.entries, cliArgs.target)
                  ELSE 1
           fmt == IF cliArgs.json THEN "json" ELSE IF cliArgs.md THEN "md" ELSE "text"
       IN  cliStdout' = Append(cliStdout,
                               [kind |-> fmt, index |-> idx, entry |-> cliFetched.entries[idx]])
    /\ cliExit' = 0
    /\ cliPc' = "done"
    /\ UNCHANGED <<cliArgs, cliFetched, cliFetchCalls, cliStderr>>
    /\ UNCHANGED <<mdVars, rbVars, nvVars, aggVars, freqVars, relVars, jsonVars, fcVars>>

CliNext ==
    \/ CliUnknownSource
    \/ CliFetch
    \/ CliFetchError
    \/ CliNoEntries
    \/ CliListVersions
    \/ CliVersionNotFound
    \/ CliRender

----------------------------------------------------------------------------
(* outputJSON: encoding/json applied to a ChangelogEntry.                  *)

\* the struct's fields in declaration order, with their json tags
EntryFields ==
    << [key |-> "version",     omitempty |-> FALSE, kind |-> "string"],
       [key |-> "released_at", omitempty |-> TRUE,  kind |-> "struct"],
       [key |-> "source",      omitempty |-> TRUE,  kind |-> "string"],
       [key |-> "sections",    omitempty |-> TRUE,  kind |-> "slice"],
       [key |-> "changes",     omitempty |-> TRUE,  kind |-> "slice"] >>

FieldValue(e, key) ==
    CASE key = "version" -> e.Version
      [] key = "released_at" -> e.ReleasedAt
      [] key = "source" -> e.Source
      [] key = "sections" -> e.Sections
      [] key = "changes" -> e.Changes

\* encoding/json's isEmptyValue: an empty string, a slice of length 0; a
\* struct value, such as a time.Time, is never empty
IsEmptyValue(kind, v) ==
    CASE kind = "string" -> Len(v) = 0
      [] kind = "slice" -> Len(v) = 0
      [] kind = "struct" -> FALSE

\* the fields of the encoded object, in order
EncodeEntry(e) ==
    LET kept == SelectSeq(EntryFields,
                    LAMBDA f : ~(f.omitempty /\ IsEmptyValue(f.kind, FieldValue(e, f.key))))
    IN  [i \in 1..Len(kept) |-> [key |-> kept[i].key, value |-> FieldValue(e, kept[i].key)]]

\* the entries handed to the encoder
JsonEntries ==
    [Version : {<<"1">>},
     ReleasedAt : {ZeroTime, Cutoff, Now},
     Source : {<<>>} \cup {DisplayName(s) : s \in Sources},
     Sections : {<<>>, <<[Name |-> <<"T", "U", "I">>, Changes |-> <<<<"a">>>>]>>},
     Changes : {<<>>} \cup SeqsUpTo({<<"a">>, <<"b">>}, MaxJsonChanges)]

\* encoder.Encode(entry)
JsonEncode ==
    /\ jsonPc = "start"
    /\ jsonOut' = EncodeEntry(jsonEntry)
    /\ jsonPc' = "done"
    /\ UNCHANGED jsonEntry
    /\ UNCHANGED <<mdVars, rbVars, nvVars, aggVars, freqVars, relVars, cliVars, fcVars>>

JsonNext == JsonEncode

----------------------------------------------------------------------------
(* fetchClaudeChangelog: the raw-markdown adapter and its commit-date      *)
(* fallback.                                                               *)

\* parseMarkdownChangelogWithOptionalDate as a whole
parseMarkdownChangelogWithOptionalDate(c) ==
    LET ms == FindAll(c)
    IN  [i \in 1..Len(ms) |-> MarkdownEntry(c, ms, i)]

\* what fetchGitHubFileLastCommitDate may return: the zero time on any
\* failure, or the committer date
CommitDates == {ZeroTime, Cutoff + 1}

\* what httpGet may return: an error, or the document
FcContents == {<<>>} \cup {<<c>> : c \in Documents}

ApplyCommitDateToAll(es, commitDate) ==
    [i \in 1..Len(es) |->
        IF IsZero(es[i].ReleasedAt) /\ ~IsZero(commitDate)
        THEN [es[i] EXCEPT !.ReleasedAt = commitDate]
        ELSE es[i]]

\* if !commitDate.IsZero() { entries[0].ReleasedAt = commitDate }
ApplyCommitDate(es, commitDate) ==
    IF ~IsZero(commitDate) THEN [es EXCEPT ![1].ReleasedAt = commitDate] ELSE es

\* content, err := httpGet(url); if err != nil { return nil, err }
FcHttpError ==
    /\ fcPc = "start"
    /\ fcContent = <<>>
    /\ fcErr' = TRUE
    /\ fcPc' = "done"
    /\ UNCHANGED <<fcContent, fcEntries, fcCommitLookups>>
    /\ UNCHANGED <<mdVars, rbVars, nvVars, aggVars, freqVars, relVars, cliVars, jsonVars>>

\* entries := parseMarkdownChangelogWithOptionalDate(content, pattern)
FcParse ==
    /\ fcPc = "start"
    /\ fcContent # <<>>
    /\ fcEntries' = parseMarkdownChangelogWithOptionalDate(fcContent[1])
    /\ fcPc' = "parsed"
    /\ UNCHANGED <<fcContent, fcErr, fcCommitLookups>>
    /\ UNCHANGED <<mdVars, rbVars, nvVars, aggVars, freqVars, relVars, cliVars, jsonVars>>

\* the newest entry is undated: the commit date is looked up and, when it
\* is set, stamped on entries[0]; return entries, nil
FcFallback ==
    /\ fcPc = "parsed"
    /\ Len(fcEntries) > 0
    /\ IsZero(fcEntries[1].ReleasedAt)
    /\ \E commitDate \in CommitDates :
        fcEntries' = ApplyCommitDate(fcEntries, commitDate)
    /\ fcCommitLookups' = fcCommitLookups + 1
    /\ fcPc' = "done"
    /\ UNCHANGED <<fcContent, fcErr>>
    /\ UNCHANGED <<mdVars, rbVars, nvVars, aggVars, freqVars, relVars, cliVars, jsonVars>>

\* no entry, or a dated newest entry: return entries, nil
FcReturn ==
    /\ fcPc = "parsed"
    /\ ~(Len(fcEntries) > 0 /\ IsZero(fcEntries[1].ReleasedAt))
    /\ fcPc' = "done"
    /\ UNCHANGED <<fcContent, fcEntries, fcErr, fcCommitLookups>>
    /\ UNCHANGED <<mdVars, rbVars, nvVars, aggVars, freqVars, relVars, cliVars, jsonVars>>

FcNext ==
    \/ FcHttpError
    \/ FcParse
    \/ FcFallback
    \/ FcReturn

----------------------------------------------------------------------------
(* The specifications: one per component, the others at rest.              *)

\* the markdown changelog parser on every document of Documents
InitMarkdown ==
    /\ content \in Documents
    /\ matches = <<>>
    /\ entries = <<>>
    /\ mdPc = "start"
    /\ body = <<>> /\ lines = <<>> /\ lineNo = 1 /\ sections = <<>>
    /\ ungroupedChanges = <<>> /\ currentSection = <<>> /\ rbPc = "idle"
    /\ tagName = <<>> /\ ver = <<>> /\ nvPc = "idle"
    /\ mode = "none" /\ aggPc = "idle"
    /\ taskPc = [s \in Sources |-> "idle"]
    /\ fetched = [s \in Sources |-> NotFetched]
    /\ results = <<>> /\ closed = FALSE /\ wg = 0 /\ panicked = FALSE
    /\ arrival = {} /\ warnings = <<>> /\ recentEntries = <<>>
    /\ statusEntries = <<>> /\ output = NoOutput /\ exitCode = -1
    /\ freqEntries = <<>> /\ validEntries = <<>> /\ freqOut = <<>> /\ freqPc = "idle"
    /\ relT = ZeroTime /\ relOut = <<>> /\ relPc = "idle"
    /\ cliArgs = <<>> /\ cliPc = "idle" /\ cliFetched = NotFetched
    /\ cliFetchCalls = 0 /\ cliStdout = <<>> /\ cliStderr = <<>> /\ cliExit = -1
    /\ jsonEntry = <<>> /\ jsonOut = <<>> /\ jsonPc = "idle"
    /\ fcContent = <<>> /\ fcEntries = <<>> /\ fcErr = FALSE
    /\ fcCommitLookups = 0 /\ fcPc = "idle"

SpecMarkdown == InitMarkdown /\ [][MdNext]_vars

\* the release-body parser on every body of Bodies
InitBody ==
    /\ body \in Bodies
    /\ lines = <<>>
    /\ lineNo = 1
    /\ sections = <<>>
    /\ ungroupedChanges = <<>>
    /\ currentSection = <<>>
    /\ rbPc = "start"
    /\ content = <<>> /\ matches = <<>> /\ entries = <<>> /\ mdPc = "idle"
    /\ tagName = <<>> /\ ver = <<>> /\ nvPc = "idle"
    /\ mode = "none" /\ aggPc = "idle"
    /\ taskPc = [s \in Sources |-> "idle"]
    /\ fetched = [s \in Sources |-> NotFetched]
    /\ results = <<>> /\ closed = FALSE /\ wg = 0 /\ panicked = FALSE
    /\ arrival = {} /\ warnings = <<>> /\ recentEntries = <<>>
    /\ statusEntries = <<>> /\ output = NoOutput /\ exitCode = -1
    /\ freqEntries = <<>> /\ validEntries = <<>> /\ freqOut = <<>> /\ freqPc = "idle"
    /\ relT = ZeroTime /\ relOut = <<>> /\ relPc = "idle"
    /\ cliArgs = <<>> /\ cliPc = "idle" /\ cliFetched = NotFetched
    /\ cliFetchCalls = 0 /\ cliStdout = <<>> /\ cliStderr = <<>> /\ cliExit = -1
    /\ jsonEntry = <<>> /\ jsonOut = <<>> /\ jsonPc = "idle"
    /\ fcContent = <<>> /\ fcEntries = <<>> /\ fcErr = FALSE
    /\ fcCommitLookups = 0 /\ fcPc = "idle"

SpecBody == InitBody /\ [][RbNext]_vars

\* the tag normalisation on every tag of Tags
InitTag ==
    /\ tagName \in Tags
    /\ ver = <<>>
    /\ nvPc = "start"
    /\ content = <<>> /\ matches = <<>> /\ entries = <<>> /\ mdPc = "idle"
    /\ body = <<>> /\ lines = <<>> /\ lineNo = 1 /\ sections = <<>>
    /\ ungroupedChanges = <<>> /\ currentSection = <<>> /\ rbPc = "idle"
    /\ mode = "none" /\ aggPc = "idle"
    /\ taskPc = [s \in Sources |-> "idle"]
    /\ fetched = [s \in Sources |-> NotFetched]
    /\ results = <<>> /\ closed = FALSE /\ wg = 0 /\ panicked = FALSE
    /\ arrival = {} /\ warnings = <<>> /\ recentEntries = <<>>
    /\ statusEntries = <<>> /\ output = NoOutput /\ exitCode = -1
    /\ freqEntries = <<>> /\ validEntries = <<>> /\ freqOut = <<>> /\ freqPc = "idle"
    /\ relT = ZeroTime /\ relOut = <<>> /\ relPc = "idle"
    /\ cliArgs = <<>> /\ cliPc = "idle" /\ cliFetched = NotFetched
    /\ cliFetchCalls = 0 /\ cliStdout = <<>> /\ cliStderr = <<>> /\ cliExit = -1
    /\ jsonEntry = <<>> /\ jsonOut = <<>> /\ jsonPc = "idle"
    /\ fcContent = <<>> /\ fcEntries = <<>> /\ fcErr = FALSE
    /\ fcCommitLookups = 0 /\ fcPc = "idle"

SpecTag == InitTag /\ [][NvNext]_vars

\* calculateAvgReleaseFreq on every entry list of FreqLists
InitFreq ==
    /\ freqEntries \in FreqLists
    /\ validEntries = <<>>
    /\ freqOut = <<>>
    /\ freqPc = "start"
    /\ content = <<>> /\ matches = <<>> /\ entries = <<>> /\ mdPc = "idle"
    /\ body = <<>> /\ lines = <<>> /\ lineNo = 1 /\ sections = <<>>
    /\ ungroupedChanges = <<>> /\ currentSection = <<>> /\ rbPc = "idle"
    /\ tagName = <<>> /\ ver = <<>> /\ nvPc = "idle"
    /\ mode = "none" /\ aggPc = "idle"
    /\ taskPc = [s \in Sources |-> "idle"]
    /\ fetched = [s \in Sources |-> NotFetched]
    /\ results = <<>> /\ closed = FALSE /\ wg = 0 /\ panicked = FALSE
    /\ arrival = {} /\ warnings = <<>> /\ recentEntries = <<>>
    /\ statusEntries = <<>> /\ output = NoOutput /\ exitCode = -1
    /\ relT = ZeroTime /\ relOut = <<>> /\ relPc = "idle"
    /\ cliArgs = <<>> /\ cliPc = "idle" /\ cliFetched = NotFetched
    /\ cliFetchCalls = 0 /\ cliStdout = <<>> /\ cliStderr = <<>> /\ cliExit = -1
    /\ jsonEntry = <<>> /\ jsonOut = <<>> /\ jsonPc = "idle"
    /\ fcContent = <<>> /\ fcEntries = <<>> /\ fcErr = FALSE
    /\ fcCommitLookups = 0 /\ fcPc = "idle"

SpecFreq == InitFreq /\ [][FreqNext]_vars

\* formatRelativeTime on every time of RelTimes
InitRel ==
    /\ relT \in RelTimes
    /\ relOut = <<>>
    /\ relPc = "start"
    /\ content = <<>> /\ matches = <<>> /\ entries = <<>> /\ mdPc = "idle"
    /\ body = <<>> /\ lines = <<>> /\ lineNo = 1 /\ sections = <<>>
    /\ ungroupedChanges = <<>> /\ currentSection = <<>> /\ rbPc = "idle"
    /\ tagName = <<>> /\ ver = <<>> /\ nvPc = "idle"
    /\ mode = "none" /\ aggPc = "idle"
    /\ taskPc = [s \in Sources |-> "idle"]
    /\ fetched = [s \in Sources |-> NotFetched]
    /\ results = <<>> /\ closed = FALSE /\ wg = 0 /\ panicked = FALSE
    /\ arrival = {} /\ warnings = <<>> /\ recentEntries = <<>>
    /\ statusEntries = <<>> /\ output = NoOutput /\ exitCode = -1
    /\ freqEntries = <<>> /\ validEntries = <<>> /\ freqOut = <<>> /\ freqPc = "idle"
    /\ cliArgs = <<>> /\ cliPc = "idle" /\ cliFetched = NotFetched
    /\ cliFetchCalls = 0 /\ cliStdout = <<>> /\ cliStderr = <<>> /\ cliExit = -1
    /\ jsonEntry = <<>> /\ jsonOut = <<>> /\ jsonPc = "idle"
    /\ fcContent = <<>> /\ fcEntries = <<>> /\ fcErr = FALSE
    /\ fcCommitLookups = 0 /\ fcPc = "idle"

SpecRel == InitRel /\ [][RelNext]_vars

\* `aic <source> [flags]` on every command line of CliArgSets
InitCli ==
    /\ cliArgs \in CliArgSets
    /\ cliPc = "start"
    /\ cliFetched = NotFetched
    /\ cliFetchCalls = 0
    /\ cliStdout = <<>>
    /\ cliStderr = <<>>
    /\ cliExit = -1
    /\ content = <<>> /\ matches = <<>> /\ entries = <<>> /\ mdPc = "idle"
    /\ body = <<>> /\ lines = <<>> /\ lineNo = 1 /\ sections = <<>>
    /\ ungroupedChanges = <<>> /\ currentSection = <<>> /\ rbPc = "idle"
    /\ tagName = <<>> /\ ver = <<>> /\ nvPc = "idle"
    /\ mode = "none" /\ aggPc = "idle"
    /\ taskPc = [s \in Sources |-> "idle"]
    /\ fetched = [s \in Sources |-> NotFetched]
    /\ results = <<>> /\ closed = FALSE /\ wg = 0 /\ panicked = FALSE
    /\ arrival = {} /\ warnings = <<>> /\ recentEntries = <<>>
    /\ statusEntries = <<>> /\ output = NoOutput /\ exitCode = -1
    /\ freqEntries = <<>> /\ validEntries = <<>> /\ freqOut = <<>> /\ freqPc = "idle"
    /\ relT = ZeroTime /\ relOut = <<>> /\ relPc = "idle"
    /\ jsonEntry = <<>> /\ jsonOut = <<>> /\ jsonPc = "idle"
    /\ fcContent = <<>> /\ fcEntries = <<>> /\ fcErr = FALSE
    /\ fcCommitLookups = 0 /\ fcPc = "idle"

SpecCli == InitCli /\ [][CliNext]_vars

\* outputJSON on every entry of JsonEntries
InitJson ==
    /\ jsonEntry \in JsonEntries
    /\ jsonOut = <<>>
    /\ jsonPc = "start"
    /\ content = <<>> /\ matches = <<>> /\ entries = <<>> /\ mdPc = "idle"
    /\ body = <<>> /\ lines = <<>> /\ lineNo = 1 /\ sections = <<>>
    /\ ungroupedChanges = <<>> /\ currentSection = <<>> /\ rbPc = "idle"
    /\ tagName = <<>> /\ ver = <<>> /\ nvPc = "idle"
    /\ mode = "none" /\ aggPc = "idle"
    /\ taskPc = [s \in Sources |-> "idle"]
    /\ fetched = [s \in Sources |-> NotFetched]
    /\ results = <<>> /\ closed = FALSE /\ wg = 0 /\ panicked = FALSE
    /\ arrival = {} /\ warnings = <<>> /\ recentEntries = <<>>
    /\ statusEntries = <<>> /\ output = NoOutput /\ exitCode = -1
    /\ freqEntries = <<>> /\ validEntries = <<>> /\ freqOut = <<>> /\ freqPc = "idle"
    /\ relT = ZeroTime /\ relOut = <<>> /\ relPc = "idle"
    /\ cliArgs = <<>> /\ cliPc = "idle" /\ cliFetched = NotFetched
    /\ cliFetchCalls = 0 /\ cliStdout = <<>> /\ cliStderr = <<>> /\ cliExit = -1
    /\ fcContent = <<>> /\ fcEntries = <<>> /\ fcErr = FALSE
    /\ fcCommitLookups = 0 /\ fcPc = "idle"

SpecJson == InitJson /\ [][JsonNext]_vars

\* fetchClaudeChangelog on every document of Documents, or a failed GET
InitFetchClaude ==
    /\ fcContent \in FcContents
    /\ fcEntries = <<>>
    /\ fcErr = FALSE
    /\ fcCommitLookups = 0
    /\ fcPc = "start"
    /\ content = <<>> /\ matches = <<>> /\ entries = <<>> /\ mdPc = "idle"
    /\ body = <<>> /\ lines = <<>> /\ lineNo = 1 /\ sections = <<>>
    /\ ungroupedChanges = <<>> /\ currentSection = <<>> /\ rbPc = "idle"
    /\ tagName = <<>> /\ ver = <<>> /\ nvPc = "idle"
    /\ mode = "none" /\ aggPc = "idle"
    /\ taskPc = [s \in Sources |-> "idle"]
    /\ fetched = [s \in Sources |-> NotFetched]
    /\ results = <<>> /\ closed = FALSE /\ wg = 0 /\ panicked = FALSE
    /\ arrival = {} /\ warnings = <<>> /\ recentEntries = <<>>
    /\ statusEntries = <<>> /\ output = NoOutput /\ exitCode = -1
    /\ freqEntries = <<>> /\ validEntries = <<>> /\ freqOut = <<>> /\ freqPc = "idle"
    /\ relT = ZeroTime /\ relOut = <<>> /\ relPc = "idle"
    /\ cliArgs = <<>> /\ cliPc = "idle" /\ cliFetched = NotFetched
    /\ cliFetchCalls = 0 /\ cliStdout = <<>> /\ cliStderr = <<>> /\ cliExit = -1
    /\ jsonEntry = <<>> /\ jsonOut = <<>> /\ jsonPc = "idle"

SpecFetchClaude == InitFetchClaude /\ [][FcNext]_vars

\* `aic latest` and `aic status`
Init ==
    /\ mode \in {"latest", "status"}
    /\ aggPc = "start"
    /\ taskPc = [s \in Sources |-> "idle"]
    /\ fetched = [s \in Sources |-> NotFetched]
    /\ results = <<>>
    /\ closed = FALSE
    /\ wg = 0
    /\ panicked = FALSE
    /\ arrival = {}
    /\ warnings = <<>>
    /\ recentEntries = <<>>
    /\ statusEntries = <<>>
    /\ output = NoOutput
    /\ exitCode = -1
    /\ content = <<>> /\ matches = <<>> /\ entries = <<>> /\ mdPc = "idle"
    /\ body = <<>> /\ lines = <<>> /\ lineNo = 1 /\ sections = <<>>
    /\ ungroupedChanges = <<>> /\ currentSection = <<>> /\ rbPc = "idle"
    /\ tagName = <<>> /\ ver = <<>> /\ nvPc = "idle"
    /\ freqEntries = <<>> /\ validEntries = <<>> /\ freqOut = <<>> /\ freqPc = "idle"
    /\ relT = ZeroTime /\ relOut = <<>> /\ relPc = "idle"
    /\ cliArgs = <<>> /\ cliPc = "idle" /\ cliFetched = NotFetched
    /\ cliFetchCalls = 0 /\ cliStdout = <<>> /\ cliStderr = <<>> /\ cliExit = -1
    /\ jsonEntry = <<>> /\ jsonOut = <<>> /\ jsonPc = "idle"
    /\ fcContent = <<>> /\ fcEntries = <<>> /\ fcErr = FALSE
    /\ fcCommitLookups = 0 /\ fcPc = "idle"

Next == AggNext

Spec == Init /\ [][Next]_vars

\* The same commands under the Go scheduler: a goroutine that can run is
\* run eventually, which makes the main goroutine (the spawn loop, the
\* collection loop, the rendering) and the closer weakly fair.  Nothing is
\* assumed of a task: its FetchFunc call may never return.
FairSpec ==
    /\ Init /\ [][Next]_vars
    /\ WF_vars(AggStart)
    /\ WF_vars(CloserClose)
    /\ WF_vars(CollectWarn)
    /\ WF_vars(CollectKeep)
    /\ WF_vars(CollectSkip)
    /\ WF_vars(CollectEnd)

----------------------------------------------------------------------------
(* The markdown changelog parser (SpecMarkdown).                           *)

DocLines == SplitLines(content)

\* a line that the version-header pattern matches
IsHeaderLine(l) == HeaderMatch(l, 1).ok

HeaderLineNos == {i \in 1..Len(DocLines) : IsHeaderLine(DocLines[i])}

\* the k-th smallest element of a set of numbers
RECURSIVE Nth(_, _)
Nth(S, k) == IF k = 1 THEN Min(S) ELSE Nth(S \ {Min(S)}, k - 1)

\* the lines strictly between header k and header k+1 (or the end)
LinesAfterHeader(k) ==
    LET from == Nth(HeaderLineNos, k) + 1
        to   == IF k < Cardinality(HeaderLineNos)
                THEN Nth(HeaderLineNos, k + 1) - 1 ELSE Len(DocLines)
    IN  SubSeq(DocLines, from, to)

\* the lines of ls that start with "- " once trimmed, that marker stripped
RECURSIVE DashItems(_)
DashItems(ls) ==
    IF Len(ls) = 0 THEN <<>>
    ELSE LET t == TrimSpace(ls[1])
         IN  (IF Len(t) >= 2 /\ t[1] = "-" /\ t[2] = " "
              THEN <<SubSeq(t, 3, Len(t))>> ELSE <<>>) \o DashItems(Tail(ls))

\* C1: for a document with N lines that match the version-header pattern,
\* the parser returns N entries in document order (none when N = 0); entry
\* k carries the version of the k-th header and its changes are exactly the
\* "- " lines strictly between header k and header k+1 (or the end of the
\* document), marker stripped, in order.
C1_EntriesFollowHeaders ==
    mdPc = "done" =>
        /\ Len(entries) = Cardinality(HeaderLineNos)
        /\ \A k \in 1..Len(entries) :
            LET h == DocLines[Nth(HeaderLineNos, k)]
            IN  /\ entries[k].Version = SubSeq(h, 4, VersionEnd(h, 4) - 1)
                /\ entries[k].Changes = DashItems(LinesAfterHeader(k))

\* two headers, the first of them with a change line below it
C1_Witness ==
    /\ mdPc = "done"
    /\ Len(entries) = 2
    /\ Len(entries[1].Changes) = 1
    /\ entries[1].Version # entries[2].Version

----------------------------------------------------------------------------
(* The release-body section parser (SpecBody).                             *)

\* C2: no section of the returned list is named "What's Changed", and
\* every returned section has at least one change line.
C2_NoWrapperNoEmptySection ==
    rbPc = "done" =>
        \A i \in 1..Len(sections) :
            /\ sections[i].Name # WhatsChanged
            /\ Len(sections[i].Changes) >= 1

\* the header lines of the body that open a section
OpeningLineNos ==
    {i \in 1..Len(lines) :
        /\ IsHeader(TrimSpace(lines[i]))
        /\ HeaderName(TrimSpace(lines[i])) # WhatsChanged}

\* a body in which a section was opened and dropped for being empty, and
\* another one returned
C2_Witness ==
    /\ rbPc = "done"
    /\ Len(sections) >= 1
    /\ Cardinality(OpeningLineNos) > Len(sections)

TUI == <<"T", "U", "I">>

AddedX == <<"A", "d", "d", "e", "d", " ", "X">>

IgnoreMe == <<"I", "g", "n", "o", "r", "e", " ", "m", "e">>

\* C3 as the spec states it: scenario B returns the one section TUI with
\* the changes ["Added X"] and nothing ungrouped, the bullet after the
\* "What's Changed" header being dropped.
C3_ScenarioBDropsBullet ==
    (rbPc = "done" /\ body = ScenarioB) =>
        /\ sections = <<[Name |-> TUI, Changes |-> <<AddedX>>]>>
        /\ ungroupedChanges = <<>>

\* C3, amended: scenario B returns the one section TUI with the changes
\* ["Added X", "Ignore me"] and nothing ungrouped: the skipped header leaves
\* TUI under the cursor, and the bullet after it is appended to TUI.
C3_ScenarioBKeepsBullet ==
    (rbPc = "done" /\ body = ScenarioB) =>
        /\ sections = <<[Name |-> TUI, Changes |-> <<AddedX, IgnoreMe>>]>>
        /\ ungroupedChanges = <<>>

C3_Witness == rbPc = "done" /\ body = ScenarioB /\ Len(sections) = 1

----------------------------------------------------------------------------
(* The tag normalisation (SpecTag).                                        *)

RustV == <<"r", "u", "s", "t", "-", "v">>

\* the tag with one prefix of {"v", "rust-v"} removed, if it starts with one
OnePrefixRemoved(tag) ==
    IF Len(tag) >= 1 /\ tag[1] = "v" THEN SubSeq(tag, 2, Len(tag))
    ELSE IF Len(tag) >= 6 /\ SubSeq(tag, 1, 6) = RustV THEN SubSeq(tag, 7, Len(tag))
    ELSE tag

\* C4: the normalised version is the tag with exactly one prefix of
\* {"v", "rust-v"} removed from its front when it starts with one, and the
\* tag itself otherwise; never more than one prefix is removed.
C4_AtMostOnePrefixRemoved ==
    nvPc = "done" => ver = OnePrefixRemoved(tagName)

\* a tag that starts with "v" and goes on with "rust-v"
C4_Witness ==
    /\ nvPc = "done"
    /\ Len(tagName) > 7
    /\ SubSeq(tagName, 1, 7) = <<"v">> \o RustV

----------------------------------------------------------------------------
(* The aggregator (Spec).                                                  *)

Finished == aggPc = "done"

\* the adapter of s succeeded with an entry whose timestamp is set and
\* strictly later than now minus 24 hours
InWindow(s) ==
    /\ fetched[s].returned
    /\ ~fetched[s].err
    /\ Len(fetched[s].entries) >= 1
    /\ fetched[s].entries[1].ReleasedAt # 0
    /\ fetched[s].entries[1].ReleasedAt > Now - 24 * 60

\* the positions of the output that show source s
ShownAt(s) ==
    {i \in 1..Len(output.items) :
        IF mode = "latest" THEN output.items[i].Source = DisplayName(s)
        ELSE output.items[i].Name = DisplayName(s)}

C6_LatestSortedDescending ==
    (Finished /\ mode = "latest") =>
        \A i, j \in 1..Len(output.items) :
            i < j => output.items[i].ReleasedAt >= output.items[j].ReleasedAt

\* three entries with T1 > T2 > T3 that did not arrive in that order
C6_Witness ==
    /\ Finished /\ mode = "latest"
    /\ Len(output.items) = 3
    /\ output.items[1].ReleasedAt > output.items[2].ReleasedAt
    /\ output.items[2].ReleasedAt > output.items[3].ReleasedAt
    /\ recentEntries[1].ReleasedAt < recentEntries[2].ReleasedAt
    /\ recentEntries[2].ReleasedAt < recentEntries[3].ReleasedAt

Failed(s) == fetched[s].returned /\ fetched[s].err

WarningsAbout(s) == {i \in 1..Len(warnings) : warnings[i] = DisplayName(s)}

\* C7: in latest and status, each failing source is warned about once and
\* is not in the result; each source that succeeded is in the result exactly
\* when its own fetch result puts it there, whatever the others did; and
\* the command ends with exit code 0.
C7_PartialFailureTolerated ==
    Finished =>
        /\ exitCode = 0
        /\ Len(warnings) = Cardinality({s \in Sources : Failed(s)})
        /\ \A s \in Sources :
            /\ Cardinality(WarningsAbout(s)) = IF Failed(s) THEN 1 ELSE 0
            /\ Failed(s) => ShownAt(s) = {}
            /\ ~Failed(s) =>
                Cardinality(ShownAt(s)) =
                    IF mode = "latest"
                    THEN (IF InWindow(s) THEN 1 ELSE 0)
                    ELSE (IF Len(fetched[s].entries) >= 1 THEN 1 ELSE 0)
            /\ (~Failed(s) /\ mode = "status") =>
                \A i \in ShownAt(s) :
                    /\ output.items[i].Version = fetched[s].entries[1].Version
                    /\ output.items[i].releasedAt = fetched[s].entries[1].ReleasedAt

\* two sources failed and the third is in the result
C7_Witness ==
    /\ Finished
    /\ Cardinality({s \in Sources : Failed(s)}) = 2
    /\ Len(output.items) = 1

\* the sources whose task sent a result
Senders ==
    {s \in Sources :
        /\ taskPc[s] = "done"
        /\ \/ mode = "status"
           \/ fetched[s].err
           \/ Len(fetched[s].entries) >= 1}

\* C8: the channel is closed only after every task has finished, no task
\* sends on the closed channel, and when the collection loop has ended every
\* task has finished and every result sent has been received.
C8_JoinBeforeClose ==
    /\ closed => \A s \in Sources : taskPc[s] = "done"
    /\ ~panicked
    /\ Finished =>
        /\ \A s \in Sources : taskPc[s] = "done"
        /\ Len(results) = 0
        /\ arrival = Senders

\* the loop has received a result and another one is buffered while a task
\* is still running and the channel is still open
C8_Witness ==
    /\ aggPc = "collect"
    /\ arrival # {}
    /\ \E s \in Sources : taskPc[s] = "run"
    /\ Len(results) >= 1

\* the registry's sources in registry order
RegistryOrder == [i \in SourceIdx |-> Registry[i].Name]

\* what the collection loop keeps when the results arrive in the order ss
RECURSIVE KeptInOrder(_)
KeptInOrder(ss) ==
    IF Len(ss) = 0 THEN <<>>
    ELSE LET f == fetched[ss[1]]
             r == TaskResult(mode, ss[1], f)
         IN  (IF f.err \/ Len(f.entries) = 0 THEN <<>>
              ELSE IF mode = "latest"
                   THEN (IF LatestKeeps(r) THEN <<r.entries[1]>> ELSE <<>>)
                   ELSE <<StatusRow(r)>>)
             \o KeptInOrder(Tail(ss))

\* C9: for the same fetch results the rendered order is the same under
\* every completion order: it is the order rendered when the results arrive
\* in registry order.
C9_OrderIndependentOfArrival ==
    Finished =>
        output.items =
            SortSlice(KeptInOrder(RegistryOrder), mode)

\* two entries with the same timestamp are rendered
C9_Witness ==
    /\ Finished
    /\ \E i, j \in 1..Len(output.items) :
        /\ i < j
        /\ IF mode = "latest"
           THEN output.items[i].ReleasedAt = output.items[j].ReleasedAt
           ELSE /\ output.items[i].releasedAt = output.items[j].releasedAt
                /\ output.items[i].releasedAt # 0

\* C10: in the status rows every dated source precedes every undated one,
\* dated sources are in descending order of timestamp and undated sources
\* in ascending order of display name.
C10_StatusOrder ==
    (Finished /\ mode = "status") =>
        \A i, j \in 1..Len(output.items) :
            i < j =>
                LET a == output.items[i]
                    b == output.items[j]
                IN  /\ a.releasedAt = 0 => b.releasedAt = 0
                    /\ (a.releasedAt # 0 /\ b.releasedAt # 0) => a.releasedAt >= b.releasedAt
                    /\ (a.releasedAt = 0 /\ b.releasedAt = 0) => StrLess(a.Name, b.Name)

\* a dated row and two undated rows that arrived in another order
C10_Witness ==
    /\ Finished /\ mode = "status"
    /\ Len(output.items) = 3
    /\ output.items[1].releasedAt # 0
    /\ output.items[2].releasedAt = 0
    /\ output.items[3].releasedAt = 0
    /\ statusEntries[1].releasedAt = 0
    /\ StrLess(statusEntries[3].Name, statusEntries[1].Name)

----------------------------------------------------------------------------
(* The status cadence (SpecFreq).                                          *)

\* the first (at most 10) entries with a set timestamp
DatedEntries ==
    LET dated == SelectSeq(freqEntries, LAMBDA e : e.ReleasedAt # 0)
    IN  SubSeq(dated, 1, IF Len(dated) > 10 THEN 10 ELSE Len(dated))

\* the sum of a sequence of integers
RECURSIVE SumSeq(_)
SumSeq(q) == IF Len(q) = 0 THEN 0 ELSE q[1] + SumSeq(Tail(q))

\* the bucket of an average of avg minutes
CadenceText(avg) ==
    LET day == 24 * 60
        toward0(a, b) == IF a >= 0 THEN a \div b ELSE -((-a) \div b)
    IN  IF avg < day THEN <<"~">> \o Itoa(toward0(avg, 60)) \o <<"h">>
        ELSE IF avg < 7 * day THEN <<"~">> \o Itoa(avg \div day) \o <<"d">>
        ELSE IF avg < 28 * day THEN <<"~">> \o Itoa((avg \div day) \div 7) \o <<"w">>
        ELSE <<"~">> \o Itoa((avg \div day) \div 30) \o <<"m", "o">>

\* five dated entries, each exactly 24 hours after the next
FiveDaily ==
    /\ Len(freqEntries) = 5
    /\ \A i \in 1..5 : freqEntries[i].ReleasedAt # 0
    /\ \A i \in 1..4 :
        freqEntries[i].ReleasedAt - freqEntries[i + 1].ReleasedAt = 24 * 60

\* C11: with k the number of the first (at most 10) dated entries, the
\* cadence is "-" when k < 2 and otherwise the bucket of the mean of the
\* k-1 differences time(i) - time(i+1); five entries dated exactly 24
\* hours apart give "~1d".
C11_CadenceIsMeanInterval ==
    freqPc = "done" =>
        LET k == Len(DatedEntries)
            diffs == [i \in 1..(k - 1) |->
                        DatedEntries[i].ReleasedAt - DatedEntries[i + 1].ReleasedAt]
            sum == SumSeq(diffs)
            mean == IF sum >= 0 THEN sum \div (k - 1) ELSE -((-sum) \div (k - 1))
        IN  /\ freqOut = IF k < 2 THEN <<"-">> ELSE CadenceText(mean)
            /\ FiveDaily => freqOut = <<"~", "1", "d">>

\* the cadence of five entries dated exactly 24 hours apart was computed
C11_Witness ==
    /\ freqPc = "done"
    /\ FiveDaily
    /\ freqOut = <<"~", "1", "d">>

----------------------------------------------------------------------------
(* The relative time (SpecRel).                                            *)

\* the text "<n><unit> ago"
Ago(n, unit) == Itoa(n) \o unit \o <<" ", "a", "g", "o">>

\* C12: a set timestamp d minutes before now is reported in whole minutes
\* when d < 1 hour, whole hours when d < 24 hours, whole days when d < 7
\* days, whole weeks when d < 28 days, and months of 30 days otherwise.
C12_RelativeTimeBuckets ==
    (relPc = "done" /\ relT # 0) =>
        LET d == Now - relT
            hour == 60
            day == 24 * 60
        IN  relOut =
                IF d < hour THEN Ago(d, <<"m">>)
                ELSE IF d < day THEN Ago(d \div hour, <<"h">>)
                ELSE IF d < 7 * day THEN Ago(d \div day, <<"d">>)
                ELSE IF d < 28 * day THEN Ago((d \div day) \div 7, <<"w">>)
                ELSE Ago((d \div day) \div 30, <<"m", "o">>)

\* a timestamp exactly 28 days old was formatted
C12_Witness ==
    /\ relPc = "done"
    /\ Now - relT = 28 * 24 * 60
    /\ relOut = <<"0", "m", "o", " ", "a", "g", "o">>

----------------------------------------------------------------------------
(* Single-source mode (SpecCli).                                           *)

CliDone == cliPc = "done"

CliUnknown == cliArgs.source \notin Sources

CliEmpty == cliFetched.returned /\ ~cliFetched.err /\ Len(cliFetched.entries) = 0

\* a target was asked for and no entry fetched carries it
CliMissing ==
    /\ cliFetched.returned /\ ~cliFetched.err
    /\ cliArgs.target # <<>>
    /\ \A i \in 1..Len(cliFetched.entries) : cliFetched.entries[i].Version # cliArgs.target

\* the invocation failed: an error message, nothing on standard output
CliFailed == cliExit # 0 /\ Len(cliStderr) > 0 /\ cliStdout = <<>>

\* the entry the claim selects: the first with the target's version, or
\* entry 0 when no target is given
CliSelected ==
    IF cliArgs.target = <<>> THEN cliFetched.entries[1]
    ELSE cliFetched.entries[
            CHOOSE i \in 1..Len(cliFetched.entries) :
                /\ cliFetched.entries[i].Version = cliArgs.target
                /\ \A j \in 1..(i - 1) : cliFetched.entries[j].Version # cliArgs.target]

----------------------------------------------------------------------------
(* Empty results in the aggregate modes (Spec).                            *)

\* the sources whose adapter returned no error and no entry
EmptySources ==
    {s \in Sources :
        fetched[s].returned /\ ~fetched[s].err /\ Len(fetched[s].entries) = 0}

\* C14: whenever a source's adapter produces zero entries, in latest and
\* status as in single-source mode, the condition is reported and the
\* command ends with a non-success outcome.
C14_EmptyResultAlwaysFatal ==
    (Finished /\ EmptySources # {}) =>
        /\ exitCode # 0
        /\ \A s \in EmptySources : WarningsAbout(s) # {}

\* a command has finished after one adapter returned zero entries
C14_Witness ==
    /\ Finished
    /\ EmptySources # {}

----------------------------------------------------------------------------
(* The entry list of the markdown family (SpecMarkdown).                   *)

\* C15: in the entry list an adapter returns, every entry's version is a
\* non-empty string and no two entries have the same version.
C15_VersionsNonEmptyAndUnique ==
    mdPc = "done" =>
        /\ \A i \in 1..Len(entries) : entries[i].Version # <<>>
        /\ \A i, j \in 1..Len(entries) :
            i # j => entries[i].Version # entries[j].Version

\* a document with two version headers was parsed
C15_Witness ==
    /\ mdPc = "done"
    /\ Len(entries) = 2

----------------------------------------------------------------------------
(* The JSON rendering of an entry (SpecJson).                              *)

JsonHas(key) == \E i \in 1..Len(jsonOut) : jsonOut[i].key = key

\* C16: released_at is in the encoded object if and only if the entry's
\* timestamp is set; source is omitted when unset and changes when the
\* flat list is empty.
C16_JsonOmitsUnsetFields ==
    jsonPc = "done" =>
        /\ JsonHas("released_at") <=> jsonEntry.ReleasedAt # 0
        /\ JsonHas("source") <=> jsonEntry.Source # <<>>
        /\ JsonHas("changes") <=> jsonEntry.Changes # <<>>

\* an entry with no timestamp was encoded
C16_Witness ==
    /\ jsonPc = "done"
    /\ jsonEntry.ReleasedAt = 0

----------------------------------------------------------------------------
(* The commit-date fallback (SpecFetchClaude).                             *)

\* the list the parser returned for the document fetched
FcParsed == parseMarkdownChangelogWithOptionalDate(fcContent[1])

\* C17: the commit date is looked up only when the parsed list is not
\* empty and its newest entry has no timestamp; the list returned differs
\* from the parsed list at most in entry 0's release timestamp.
C17_FallbackTouchesOnlyNewestDate ==
    (fcPc = "done" /\ ~fcErr) =>
        /\ fcCommitLookups \in {0, 1}
        /\ fcCommitLookups = 1 <=> (Len(FcParsed) > 0 /\ FcParsed[1].ReleasedAt = 0)
        /\ fcCommitLookups = 0 => fcEntries = FcParsed
        /\ Len(fcEntries) = Len(FcParsed)
        /\ \A i \in 1..Len(FcParsed) :
            /\ fcEntries[i].Version = FcParsed[i].Version
            /\ fcEntries[i].Changes = FcParsed[i].Changes
            /\ fcEntries[i].Sections = FcParsed[i].Sections
            /\ fcEntries[i].Source = FcParsed[i].Source
            /\ i > 1 => fcEntries[i].ReleasedAt = FcParsed[i].ReleasedAt

\* the fallback dated the newest of two undated entries
C17_Witness ==
    /\ fcPc = "done" /\ ~fcErr
    /\ fcCommitLookups = 1
    /\ Len(fcEntries) = 2
    /\ FcParsed[1].ReleasedAt = 0
    /\ fcEntries[1].ReleasedAt # 0
    /\ fcEntries[2].ReleasedAt = 0

----------------------------------------------------------------------------
(* Re-parsing the section parser's own output (SpecBody).                  *)

\* the markdown of one section: a level-2 header line, then one "- " line
\* per change
SectionLines(sec) ==
    <<<<"#", "#", " ">> \o sec.Name>>
    \o [i \in 1..Len(sec.Changes) |-> <<"-", " ">> \o sec.Changes[i]]

RECURSIVE RebuildLines(_)
RebuildLines(secs) ==
    IF Len(secs) = 0 THEN <<>> ELSE SectionLines(secs[1]) \o RebuildLines(Tail(secs))

\* the markdown rebuilt from a list of sections
Rebuild(secs) == JoinLines(RebuildLines(secs))

\* C18: parsing the markdown rebuilt from the sections the parser returned
\* (a header line per section, a "- " line per change) returns the same
\* sections, with the same names and changes in the same order.
C18_ReparseGivesSameSections ==
    rbPc = "done" => parseReleaseBody(Rebuild(sections)).sections = sections

\* a body was parsed whose sections, rebuilt and parsed again, differ
C18_Witness ==
    /\ rbPc = "done"
    /\ Len(sections) >= 1
    /\ parseReleaseBody(Rebuild(sections)).sections # sections

----------------------------------------------------------------------------
(* The routing of bullet lines (SpecBody).                                 *)

\* the line the loop is at, trimmed
RbTrimmed == TrimSpace(lines[lineNo])

\* the lines before the loop's position that opened a section
OpenedBefore ==
    {k \in 1..(lineNo - 1) :
        /\ IsHeader(TrimSpace(lines[k]))
        /\ HeaderName(TrimSpace(lines[k])) # WhatsChanged}

\* the text of a bullet line after its two-character marker
AfterMarker(trimmed) == SubSeq(trimmed, 3, Len(trimmed))

\* C20: in every turn of the loop, the open section is the one opened by
\* the most recent header other than "What's Changed" (none before the
\* first); such a header leaves the cursor unchanged; a "- " or "* " line
\* whose text after the marker is non-empty and does not start with "@" is
\* appended to the open section, or to the ungrouped list when none is
\* open; any other bullet line is added nowhere.
C20_BulletRouting ==
    [][RbAtLine =>
        /\ IF OpenedBefore = {} THEN currentSection = <<>>
           ELSE /\ currentSection # <<>>
                /\ currentSection[1].Name = HeaderName(TrimSpace(lines[Max(OpenedBefore)]))
        /\ (IsHeader(RbTrimmed) /\ HeaderName(RbTrimmed) = WhatsChanged) =>
                UNCHANGED <<currentSection, sections, ungroupedChanges>>
        /\ (RbTrimmed # <<>> /\ RbTrimmed[1] \in {"-", "*"} /\ Len(RbTrimmed) >= 2
                /\ RbTrimmed[2] = " ") =>
            LET text == AfterMarker(RbTrimmed)
            IN  IF text # <<>> /\ text[1] # "@"
                THEN IF currentSection # <<>>
                     THEN /\ currentSection' =
                                <<[currentSection[1] EXCEPT !.Changes = Append(@, text)]>>
                          /\ UNCHANGED <<sections, ungroupedChanges>>
                     ELSE /\ ungroupedChanges' = Append(ungroupedChanges, text)
                          /\ UNCHANGED <<sections, currentSection>>
                ELSE UNCHANGED <<currentSection, sections, ungroupedChanges>>
    ]_vars

\* the loop is at a "- * @..." line with a section open
C20_Witness ==
    /\ RbAtLine
    /\ currentSection # <<>>
    /\ HasPrefix(RbTrimmed, <<"-", " ", "*", " ", "@">>)

----------------------------------------------------------------------------
(* Termination of the aggregate commands (FairSpec).                       *)

\* C19: if every task's fetch eventually returns, the command eventually
\* closes the channel, ends the collection, renders and terminates; while
\* some task has not returned, the channel is not closed and nothing is
\* rendered, for ever if the fetch never returns.
C19_TerminatesIffFetchesReturn ==
    /\ (\A s \in Sources : <>(taskPc[s] = "done"))
            => <>(closed /\ aggPc = "done" /\ output # NoOutput /\ exitCode = 0)
    /\ \A s \in Sources :
            [](taskPc[s] # "done" => (~closed /\ aggPc # "done" /\ output = NoOutput))

\* status has rendered a row for every source
C19_Witness ==
    /\ Finished /\ mode = "status"
    /\ closed
    /\ \A s \in Sources : taskPc[s] = "done"
    /\ Len(output.items) = Cardinality(Sources)

----------------------------------------------------------------------------
(* The cadence's buckets against the relative time's (SpecFreq).           *)

\* the average interval of the dated entries, in minutes
MeanInterval ==
    LET k == Len(DatedEntries)
        sum == DatedEntries[1].ReleasedAt - DatedEntries[k].ReleasedAt
    IN  IF sum >= 0 THEN sum \div (k - 1) ELSE -((-sum) \div (k - 1))

\* the "updated ago" string of an event a minutes before now
AgoText(a) == formatRelativeTime(Now - a)

\* C21: the cadence of an average interval a is the "updated ago" string
\* of an elapsed duration a (minutes below 1 hour, hours below 24 hours,
\* days below 7 days, weeks below 4 weeks, else 30-day months) with "~" in
\* front instead of " ago" behind.
C21_CadenceUsesRelativeTimeBuckets ==
    (freqPc = "done" /\ Len(DatedEntries) >= 2) =>
        freqOut \o <<" ", "a", "g", "o">> = <<"~">> \o AgoText(MeanInterval)

\* a cadence was computed from entries half an hour apart
C21_Witness ==
    /\ freqPc = "done"
    /\ Len(DatedEntries) >= 2
    /\ MeanInterval = 30
    /\ freqOut = <<"~", "0", "h">>

----------------------------------------------------------------------------
(* The bound of the results channel (Spec).                                *)

\* C22: the channel's capacity is the number of registered sources, each
\* task's result is on the channel or received at most once, the buffer
\* never holds more than the capacity, and while a task has yet to send
\* there is room in the buffer, so that no send blocks.
C22_ChannelNeverFull ==
    /\ Capacity = Cardinality(Sources)
    /\ Len(results) <= Capacity
    /\ \A i, j \in 1..Len(results) : i # j => results[i].source # results[j].source
    /\ \A i \in 1..Len(results) :
        /\ results[i].source \notin arrival
        /\ taskPc[results[i].source] = "done"
    /\ (\E s \in Sources : taskPc[s] = "run") => Len(results) < Capacity

\* every task has sent its result before the loop received any
C22_Witness ==
    /\ aggPc = "collect"
    /\ arrival = {}
    /\ Len(results) = Cardinality(Sources)
    /\ ~closed

====
